---- MODULE Spec2Model ----
(***************************************************************************)
(* The PHI de-identification engine of the medical imaging pipeline        *)
(* (src/medical-imaging-pipeline/src/ingestion/deidentifier.py): one       *)
(* DICOMDeidentifier instance, the dataset it is applied to, and the       *)
(* library functions it calls (hashlib, datetime, int), each computed the  *)
(* way the library computes it.                                            *)
(*                                                                         *)
(* A string is a sequence of one-character strings, so that it can be      *)
(* indexed, sliced and encoded.                                            *)
(***************************************************************************)
EXTENDS Integers, Sequences, FiniteSets, TLC

(***************************************************************************)
(* Printable ASCII, code 32 to 126.  The four characters that cannot be    *)
(* written as a one-character string literal are held by their names; no   *)
(* string of the model contains them.                                      *)
(***************************************************************************)
ASCII ==
   <<
      " ", "!", "dquote", "#", "$", "%", "&", "squote", "(", ")", "*", "+", ",", "-", ".", "/",
      "0", "1", "2", "3", "4", "5", "6", "7", "8", "9", ":", ";", "<", "=", ">", "?",
      "@", "A", "B", "C", "D", "E", "F", "G", "H", "I", "J", "K", "L", "M", "N", "O",
      "P", "Q", "R", "S", "T", "U", "V", "W", "X", "Y", "Z", "[", "backslash", "]", "^", "_",
      "backtick", "a", "b", "c", "d", "e", "f", "g", "h", "i", "j", "k", "l", "m", "n", "o",
      "p", "q", "r", "s", "t", "u", "v", "w", "x", "y", "z", "{", "|", "}", "~" >>

(***************************************************************************)
(* str.encode(): the UTF-8 bytes of a string of printable ASCII characters *)
(***************************************************************************)
Ord(c) == 31 + (CHOOSE i \in 1..Len(ASCII) : ASCII[i] = c)

encode(s) == [i \in 1..Len(s) |-> Ord(s[i])]

HexDigits ==
   <<"0", "1", "2", "3", "4", "5", "6", "7", "8", "9", "a", "b", "c", "d", "e", "f">>

Hex2(b) == <<HexDigits[(b \div 16) + 1], HexDigits[(b % 16) + 1]>>

Hex4(h) == Hex2(h \div 256) \o Hex2(h % 256)

AndNibble ==
   <<
      << 0,  0,  0,  0,  0,  0,  0,  0,  0,  0,  0,  0,  0,  0,  0,  0>>,
      << 0,  1,  0,  1,  0,  1,  0,  1,  0,  1,  0,  1,  0,  1,  0,  1>>,
      << 0,  0,  2,  2,  0,  0,  2,  2,  0,  0,  2,  2,  0,  0,  2,  2>>,
      << 0,  1,  2,  3,  0,  1,  2,  3,  0,  1,  2,  3,  0,  1,  2,  3>>,
      << 0,  0,  0,  0,  4,  4,  4,  4,  0,  0,  0,  0,  4,  4,  4,  4>>,
      << 0,  1,  0,  1,  4,  5,  4,  5,  0,  1,  0,  1,  4,  5,  4,  5>>,
      << 0,  0,  2,  2,  4,  4,  6,  6,  0,  0,  2,  2,  4,  4,  6,  6>>,
      << 0,  1,  2,  3,  4,  5,  6,  7,  0,  1,  2,  3,  4,  5,  6,  7>>,
      << 0,  0,  0,  0,  0,  0,  0,  0,  8,  8,  8,  8,  8,  8,  8,  8>>,
      << 0,  1,  0,  1,  0,  1,  0,  1,  8,  9,  8,  9,  8,  9,  8,  9>>,
      << 0,  0,  2,  2,  0,  0,  2,  2,  8,  8, 10, 10,  8,  8, 10, 10>>,
      << 0,  1,  2,  3,  0,  1,  2,  3,  8,  9, 10, 11,  8,  9, 10, 11>>,
      << 0,  0,  0,  0,  4,  4,  4,  4,  8,  8,  8,  8, 12, 12, 12, 12>>,
      << 0,  1,  0,  1,  4,  5,  4,  5,  8,  9,  8,  9, 12, 13, 12, 13>>,
      << 0,  0,  2,  2,  4,  4,  6,  6,  8,  8, 10, 10, 12, 12, 14, 14>>,
      << 0,  1,  2,  3,  4,  5,  6,  7,  8,  9, 10, 11, 12, 13, 14, 15>> >>

XorNibble ==
   <<
      << 0,  1,  2,  3,  4,  5,  6,  7,  8,  9, 10, 11, 12, 13, 14, 15>>,
      << 1,  0,  3,  2,  5,  4,  7,  6,  9,  8, 11, 10, 13, 12, 15, 14>>,
      << 2,  3,  0,  1,  6,  7,  4,  5, 10, 11,  8,  9, 14, 15, 12, 13>>,
      << 3,  2,  1,  0,  7,  6,  5,  4, 11, 10,  9,  8, 15, 14, 13, 12>>,
      << 4,  5,  6,  7,  0,  1,  2,  3, 12, 13, 14, 15,  8,  9, 10, 11>>,
      << 5,  4,  7,  6,  1,  0,  3,  2, 13, 12, 15, 14,  9,  8, 11, 10>>,
      << 6,  7,  4,  5,  2,  3,  0,  1, 14, 15, 12, 13, 10, 11,  8,  9>>,
      << 7,  6,  5,  4,  3,  2,  1,  0, 15, 14, 13, 12, 11, 10,  9,  8>>,
      << 8,  9, 10, 11, 12, 13, 14, 15,  0,  1,  2,  3,  4,  5,  6,  7>>,
      << 9,  8, 11, 10, 13, 12, 15, 14,  1,  0,  3,  2,  5,  4,  7,  6>>,
      <<10, 11,  8,  9, 14, 15, 12, 13,  2,  3,  0,  1,  6,  7,  4,  5>>,
      <<11, 10,  9,  8, 15, 14, 13, 12,  3,  2,  1,  0,  7,  6,  5,  4>>,
      <<12, 13, 14, 15,  8,  9, 10, 11,  4,  5,  6,  7,  0,  1,  2,  3>>,
      <<13, 12, 15, 14,  9,  8, 11, 10,  5,  4,  7,  6,  1,  0,  3,  2>>,
      <<14, 15, 12, 13, 10, 11,  8,  9,  6,  7,  4,  5,  2,  3,  0,  1>>,
      <<15, 14, 13, 12, 11, 10,  9,  8,  7,  6,  5,  4,  3,  2,  1,  0>> >>

(***************************************************************************)
(* 32-bit words are pairs <<high 16 bits, low 16 bits>>                    *)
(***************************************************************************)
Pow2 ==
   <<1, 2, 4, 8, 16, 32, 64, 128, 256, 512, 1024, 2048, 4096, 8192, 16384, 32768, 65536>>

P2(n) == Pow2[n + 1]

Nibbles(op, a, b) ==
   op[(a % 16) + 1][(b % 16) + 1]
   + 16 * op[((a \div 16) % 16) + 1][((b \div 16) % 16) + 1]
   + 256 * op[((a \div 256) % 16) + 1][((b \div 256) % 16) + 1]
   + 4096 * op[(a \div 4096) + 1][(b \div 4096) + 1]

Xor16(a, b) == Nibbles(XorNibble, a, b)

And16(a, b) == Nibbles(AndNibble, a, b)

WXor(x, y) == <<Xor16(x[1], y[1]), Xor16(x[2], y[2])>>

WAnd(x, y) == <<And16(x[1], y[1]), And16(x[2], y[2])>>

WNot(x) == <<65535 - x[1], 65535 - x[2]>>

WOr(x, y) == WNot(WAnd(WNot(x), WNot(y)))

WAdd(x, y) ==
   LET lo == x[2] + y[2]
       hi == x[1] + y[1] + (lo \div 65536)
   IN  <<hi % 65536, lo % 65536>>

RECURSIVE Rotr(_, _)
Rotr(x, n) ==
   IF n = 0 THEN x
   ELSE IF n >= 16 THEN Rotr(<<x[2], x[1]>>, n - 16)
   ELSE <<(x[1] \div P2(n)) + (x[2] % P2(n)) * P2(16 - n),
          (x[2] \div P2(n)) + (x[1] % P2(n)) * P2(16 - n)>>

Rotl(x, n) == Rotr(x, 32 - n)

Shr(x, n) ==
   IF n >= 16 THEN <<0, x[1] \div P2(n - 16)>>
   ELSE <<x[1] \div P2(n), (x[2] \div P2(n)) + (x[1] % P2(n)) * P2(16 - n)>>

(***************************************************************************)
(* Merkle-Damgard padding shared by MD5 and SHA-256: 0x80, zeros up to 56  *)
(* mod 64, then the bit length in 8 bytes (messages here are < 2^28 bytes) *)
(***************************************************************************)
PadZeros(n) == [i \in 1..((119 - (n % 64)) % 64) |-> 0]

BitLenBE(n) ==
   LET bits == n * 8
   IN  <<0, 0, 0, 0, (bits \div 16777216) % 256, (bits \div 65536) % 256,
         (bits \div 256) % 256, bits % 256>>

Reverse(s) == [i \in 1..Len(s) |-> s[Len(s) + 1 - i]]

(***************************************************************************)
(* hashlib.sha256(data).hexdigest()                                        *)
(***************************************************************************)
SHA256_K ==
   <<
      <<17034, 12184>>, <<28983, 17553>>, <<46528, 64463>>, <<59829, 56229>>,
      <<14678, 49755>>, <<23025, 4593>>, <<37439, 33444>>, <<43804, 24277>>,
      <<55303, 43672>>, <<4739, 23297>>, <<9265, 34238>>, <<21772, 32195>>,
      <<29374, 23924>>, <<32990, 45566>>, <<39900, 1703>>, <<49563, 61812>>,
      <<58523, 27073>>, <<61374, 18310>>, <<4033, 40390>>, <<9228, 41420>>,
      <<11753, 11375>>, <<19060, 33962>>, <<23728, 43484>>, <<30457, 35034>>,
      <<38974, 20818>>, <<43057, 50797>>, <<45059, 10184>>, <<48985, 32711>>,
      <<50912, 3059>>, <<54695, 37191>>, <<1738, 25425>>, <<5161, 10599>>,
      <<10167, 2693>>, <<11803, 8504>>, <<19756, 28156>>, <<21304, 3347>>,
      <<25866, 29524>>, <<30314, 2747>>, <<33218, 51502>>, <<37490, 11397>>,
      <<41663, 59553>>, <<43034, 26187>>, <<49739, 35696>>, <<51052, 20899>>,
      <<53650, 59417>>, <<54937, 1572>>, <<62478, 13701>>, <<4202, 41072>>,
      <<6564, 49430>>, <<7735, 27656>>, <<10056, 30540>>, <<13488, 48309>>,
      <<14620, 3251>>, <<20184, 43594>>, <<23452, 51791>>, <<26670, 28659>>,
      <<29839, 33518>>, <<30885, 25455>>, <<33992, 30740>>, <<36039, 520>>,
      <<37054, 65530>>, <<42064, 27883>>, <<48889, 41975>>, <<50801, 30962>> >>

SHA256_H0 ==
   <<
      <<27145, 58983>>, <<47975, 44677>>, <<15470, 62322>>, <<42319, 62778>>,
      <<20750, 21119>>, <<39685, 26764>>, <<8067, 55723>>, <<23520, 52505>> >>

BSig0(x) == WXor(WXor(Rotr(x, 2), Rotr(x, 13)), Rotr(x, 22))
BSig1(x) == WXor(WXor(Rotr(x, 6), Rotr(x, 11)), Rotr(x, 25))
SSig0(x) == WXor(WXor(Rotr(x, 7), Rotr(x, 18)), Shr(x, 3))
SSig1(x) == WXor(WXor(Rotr(x, 17), Rotr(x, 19)), Shr(x, 10))
Ch(x, y, z) == WXor(WAnd(x, y), WAnd(WNot(x), z))
Maj(x, y, z) == WXor(WXor(WAnd(x, y), WAnd(x, z)), WAnd(y, z))

WordBE(b, i) == <<b[i] * 256 + b[i + 1], b[i + 2] * 256 + b[i + 3]>>

RECURSIVE ShaSchedule(_)
ShaSchedule(w) ==
   IF Len(w) = 64 THEN w
   ELSE LET t == Len(w) + 1
        IN  ShaSchedule(Append(w,
               WAdd(WAdd(SSig1(w[t - 2]), w[t - 7]), WAdd(SSig0(w[t - 15]), w[t - 16]))))

RECURSIVE ShaRounds(_, _, _)
ShaRounds(v, w, t) ==
   IF t > 64 \/ Len(v) # 8 THEN v
   ELSE LET t1 == WAdd(WAdd(WAdd(v[8], BSig1(v[5])), WAdd(Ch(v[5], v[6], v[7]), SHA256_K[t])),
                       w[t])
            t2 == WAdd(BSig0(v[1]), Maj(v[1], v[2], v[3]))
        IN  ShaRounds(<<WAdd(t1, t2), v[1], v[2], v[3], WAdd(v[4], t1), v[5], v[6], v[7]>>,
                      w, t + 1)

RECURSIVE ShaBlocks(_, _, _)
ShaBlocks(h, m, off) ==
   IF off >= Len(m) THEN h
   ELSE LET w == ShaSchedule([i \in 1..16 |-> WordBE(m, off + 4 * (i - 1) + 1)])
            v == ShaRounds(h, w, 1)
        IN  ShaBlocks([i \in 1..8 |-> WAdd(h[i], v[i])], m, off + 64)

RECURSIVE HexWordsBE(_)
HexWordsBE(ws) ==
   IF ws = <<>> THEN <<>>
   ELSE Hex4(Head(ws)[1]) \o Hex4(Head(ws)[2]) \o HexWordsBE(Tail(ws))

sha256_digest(data) ==
   LET m == data \o <<128>> \o PadZeros(Len(data)) \o BitLenBE(Len(data))
   IN  ShaBlocks(SHA256_H0, m, 0)

sha256_hexdigest(digest) == HexWordsBE(digest)

(***************************************************************************)
(* hashlib.md5(data).hexdigest()                                           *)
(***************************************************************************)
MD5_T ==
   <<
      <<55146, 42104>>, <<59591, 46934>>, <<9248, 28891>>, <<49597, 52974>>,
      <<62844, 4015>>, <<18311, 50730>>, <<43056, 17939>>, <<64838, 38145>>,
      <<27008, 39128>>, <<35652, 63407>>, <<65535, 23473>>, <<35164, 55230>>,
      <<27536, 4386>>, <<64920, 29075>>, <<42617, 17294>>, <<18868, 2081>>,
      <<63006, 9570>>, <<49216, 45888>>, <<9822, 23121>>, <<59830, 51114>>,
      <<54831, 4189>>, <<580, 5203>>, <<55457, 59009>>, <<59347, 64456>>,
      <<8673, 52710>>, <<49975, 2006>>, <<62677, 3463>>, <<17754, 5357>>,
      <<43491, 59653>>, <<64751, 41976>>, <<26479, 729>>, <<36138, 19594>>,
      <<65530, 14658>>, <<34673, 63105>>, <<28061, 24866>>, <<64997, 14348>>,
      <<42174, 59972>>, <<19422, 53161>>, <<63163, 19296>>, <<48831, 48240>>,
      <<10395, 32454>>, <<60065, 10234>>, <<54511, 12421>>, <<1160, 7429>>,
      <<55764, 53305>>, <<59099, 39397>>, <<8098, 31992>>, <<50348, 22117>>,
      <<62505, 8772>>, <<17194, 65431>>, <<43924, 9127>>, <<64659, 41017>>,
      <<25947, 22979>>, <<36620, 52370>>, <<65519, 62589>>, <<34180, 24017>>,
      <<28584, 32335>>, <<65068, 59104>>, <<41729, 17172>>, <<19976, 4513>>,
      <<63315, 32386>>, <<48442, 62005>>, <<10967, 53947>>, <<60294, 54161>> >>

MD5_S ==
   <<7, 12, 17, 22, 7, 12, 17, 22, 7, 12, 17, 22, 7, 12, 17, 22, 5, 9, 14, 20, 5, 9, 14, 20, 5, 9, 14, 20, 5, 9, 14, 20, 4, 11, 16, 23, 4, 11, 16, 23, 4, 11, 16, 23, 4, 11, 16, 23, 6, 10, 15, 21, 6, 10, 15, 21, 6, 10, 15, 21, 6, 10, 15, 21>>

MD5_H0 ==
   <<<<26437, 8961>>, <<61389, 43913>>, <<39098, 56574>>, <<4146, 21622>>>>

WordLE(b, i) == <<b[i + 3] * 256 + b[i + 2], b[i + 1] * 256 + b[i]>>

Md5F(t, b, c, d) ==
   IF t <= 16 THEN WOr(WAnd(b, c), WAnd(WNot(b), d))
   ELSE IF t <= 32 THEN WOr(WAnd(d, b), WAnd(WNot(d), c))
   ELSE IF t <= 48 THEN WXor(WXor(b, c), d)
   ELSE WXor(c, WOr(b, WNot(d)))

Md5G(t) ==
   IF t <= 16 THEN t - 1
   ELSE IF t <= 32 THEN (5 * (t - 1) + 1) % 16
   ELSE IF t <= 48 THEN (3 * (t - 1) + 5) % 16
   ELSE (7 * (t - 1)) % 16

RECURSIVE Md5Rounds(_, _, _)
Md5Rounds(v, w, t) ==
   IF t > 64 \/ Len(v) # 4 THEN v
   ELSE LET f == WAdd(WAdd(Md5F(t, v[2], v[3], v[4]), v[1]), WAdd(MD5_T[t], w[Md5G(t) + 1]))
        IN  Md5Rounds(<<v[4], WAdd(v[2], Rotl(f, MD5_S[t])), v[2], v[3]>>, w, t + 1)

RECURSIVE Md5Blocks(_, _, _)
Md5Blocks(h, m, off) ==
   IF off >= Len(m) THEN h
   ELSE LET w == [i \in 1..16 |-> WordLE(m, off + 4 * (i - 1) + 1)]
            v == Md5Rounds(h, w, 1)
        IN  Md5Blocks([i \in 1..4 |-> WAdd(h[i], v[i])], m, off + 64)

RECURSIVE HexWordsLE(_)
HexWordsLE(ws) ==
   IF ws = <<>> THEN <<>>
   ELSE Hex2(Head(ws)[2] % 256) \o Hex2(Head(ws)[2] \div 256)
        \o Hex2(Head(ws)[1] % 256) \o Hex2(Head(ws)[1] \div 256)
        \o HexWordsLE(Tail(ws))

md5_digest(data) ==
   LET m == data \o <<128>> \o PadZeros(Len(data)) \o Reverse(BitLenBE(Len(data)))
   IN  Md5Blocks(MD5_H0, m, 0)

md5_hexdigest(digest) == HexWordsLE(digest)

(***************************************************************************)
(* Strings                                                                 *)
(***************************************************************************)
Digits == <<"0", "1", "2", "3", "4", "5", "6", "7", "8", "9">>

IsDigit(c) == \E i \in 1..10 : Digits[i] = c

DigitVal(c) == (CHOOSE i \in 1..10 : Digits[i] = c) - 1

\* s[:n]
Prefix(s, n) == SubSeq(s, 1, IF n < Len(s) THEN n ELSE Len(s))

\* s[:-1]
DropLast(s) == SubSeq(s, 1, Len(s) - 1)

\* s.endswith(c) for a one-character c
endswith(s, c) == Len(s) > 0 /\ s[Len(s)] = c

\* the decimal value of a non-empty string of digits
RECURSIVE DecimalVal(_)
DecimalVal(s) ==
   IF s = <<>> THEN 0 ELSE 10 * DecimalVal(DropLast(s)) + DigitVal(s[Len(s)])

\* n in decimal, zero-padded to at least w characters ("%02d", "%04d")
RECURSIVE Decimal(_, _)
Decimal(n, w) ==
   IF n < 10 /\ w <= 1 THEN <<Digits[n + 1]>>
   ELSE Append(Decimal(n \div 10, w - 1), Digits[(n % 10) + 1])

(***************************************************************************)
(* int(s): surrounding whitespace stripped, an optional sign, then digits  *)
(* with single underscores allowed between them; anything else raises      *)
(* ValueError.                                                             *)
(***************************************************************************)
RECURSIVE lstrip(_)
lstrip(s) == IF s # <<>> /\ Head(s) = " " THEN lstrip(Tail(s)) ELSE s

RECURSIVE rstrip(_)
rstrip(s) == IF s # <<>> /\ s[Len(s)] = " " THEN rstrip(DropLast(s)) ELSE s

IsDecimalLiteral(s) ==
   /\ s # <<>>
   /\ \A i \in 1..Len(s) : IsDigit(s[i]) \/ s[i] = "_"
   /\ IsDigit(s[1]) /\ IsDigit(s[Len(s)])
   /\ \A i \in 1..(Len(s) - 1) : ~(s[i] = "_" /\ s[i + 1] = "_")

int(s) ==
   LET t    == rstrip(lstrip(s))
       sgn  == t # <<>> /\ Head(t) \in {"+", "-"}
       body == IF sgn THEN Tail(t) ELSE t
       mag  == DecimalVal(SelectSeq(body, IsDigit))
   IN  IF IsDecimalLiteral(body)
       THEN [ok |-> TRUE, value |-> IF sgn /\ Head(t) = "-" THEN 0 - mag ELSE mag]
       ELSE [ok |-> FALSE, error |-> "ValueError"]

(***************************************************************************)
(* datetime: the proleptic Gregorian calendar of years 1 to 9999           *)
(***************************************************************************)
DAYS_IN_MONTH == <<31, 28, 31, 30, 31, 30, 31, 31, 30, 31, 30, 31>>

DAYS_BEFORE_MONTH == <<0, 31, 59, 90, 120, 151, 181, 212, 243, 273, 304, 334>>

is_leap(y) == y % 4 = 0 /\ (y % 100 # 0 \/ y % 400 = 0)

days_before_year(y) ==
   (y - 1) * 365 + ((y - 1) \div 4) - ((y - 1) \div 100) + ((y - 1) \div 400)

days_in_month(y, m) == IF m = 2 /\ is_leap(y) THEN 29 ELSE DAYS_IN_MONTH[m]

days_before_month(y, m) ==
   DAYS_BEFORE_MONTH[m] + (IF m > 2 /\ is_leap(y) THEN 1 ELSE 0)

ymd2ord(y, m, d) == days_before_year(y) + days_before_month(y, m) + d

DI400Y == days_before_year(401)
DI100Y == days_before_year(101)
DI4Y == days_before_year(5)
MAXORDINAL == ymd2ord(9999, 12, 31)

ord2ymd(ordinal) ==
   LET n0   == ordinal - 1
       n400 == n0 \div DI400Y
       r400 == n0 % DI400Y
       n100 == r400 \div DI100Y
       r100 == r400 % DI100Y
       n4   == r100 \div DI4Y
       r4   == r100 % DI4Y
       n1   == r4 \div 365
       n    == r4 % 365
       year == n400 * 400 + 1 + n100 * 100 + n4 * 4 + n1
       leapyear == n1 = 3 /\ (n4 # 24 \/ n100 = 3)
       guess == (n + 50) \div 32
       before == DAYS_BEFORE_MONTH[guess] + (IF guess > 2 /\ leapyear THEN 1 ELSE 0)
       month == IF before > n THEN guess - 1 ELSE guess
       preceding ==
          IF before > n
          THEN before - (DAYS_IN_MONTH[month] + (IF month = 2 /\ leapyear THEN 1 ELSE 0))
          ELSE before
   IN  IF n1 = 4 \/ n100 = 4
       THEN [year |-> year - 1, month |-> 12, day |-> 31]
       ELSE [year |-> year, month |-> month, day |-> n - preceding + 1]

(***************************************************************************)
(* datetime.strptime(s, "%Y%m%d") for an 8-character s (the only length    *)
(* _shift_date passes on).  The directives match as the regular expression *)
(* (\d\d\d\d)(1[0-2]|0[1-9]|[1-9])(3[01]|[12]\d|0[1-9]|[1-9]| [1-9]) on    *)
(* the whole string: with 8 characters the month and the day take two      *)
(* each.  Then year >= 1 and day <= days in month, else ValueError.        *)
(***************************************************************************)
MatchesMonth(a, b) ==
   \/ a = "1" /\ b \in {"0", "1", "2"}
   \/ a = "0" /\ IsDigit(b) /\ b # "0"

MatchesDay(a, b) ==
   \/ a = "3" /\ b \in {"0", "1"}
   \/ a \in {"1", "2"} /\ IsDigit(b)
   \/ a \in {"0", " "} /\ IsDigit(b) /\ b # "0"

strptime(s) ==
   IF /\ \A i \in 1..4 : IsDigit(s[i])
      /\ MatchesMonth(s[5], s[6])
      /\ MatchesDay(s[7], s[8])
   THEN LET y == DecimalVal(SubSeq(s, 1, 4))
            m == DecimalVal(SubSeq(s, 5, 6))
            d == DigitVal(s[8]) + (IF s[7] = " " THEN 0 ELSE 10 * DigitVal(s[7]))
        IN  IF y >= 1 /\ d <= days_in_month(y, m)
            THEN [ok |-> TRUE, ordinal |-> ymd2ord(y, m, d)]
            ELSE [ok |-> FALSE, error |-> "ValueError"]
   ELSE [ok |-> FALSE, error |-> "ValueError"]

\* date + timedelta(days=days): OverflowError outside years 1..9999
add_days(ordinal, days) ==
   IF ordinal + days >= 1 /\ ordinal + days <= MAXORDINAL
   THEN [ok |-> TRUE, ordinal |-> ordinal + days]
   ELSE [ok |-> FALSE, error |-> "OverflowError"]

(***************************************************************************)
(* date.strftime("%Y%m%d").  %m and %d are two digits.  %Y is the C        *)
(* library's: glibc writes the year without padding ("999"), other         *)
(* platforms and later interpreters pad it to four digits ("0999").        *)
(***************************************************************************)
strftime(ordinal, pads_year) ==
   LET t == ord2ymd(ordinal)
   IN  Decimal(t.year, IF pads_year THEN 4 ELSE 1) \o Decimal(t.month, 2) \o Decimal(t.day, 2)

(***************************************************************************)
(* Python values: None and a present value; a dataset maps the keywords of *)
(* the elements it holds to their values (strings).                        *)
(***************************************************************************)
None == <<>>

Some(v) == <<v>>

has(dataset, tag) == tag \in DOMAIN dataset

delattr(dataset, tag) == [t \in DOMAIN dataset \ {tag} |-> dataset[t]]

setattr(dataset, tag, value) ==
   [t \in DOMAIN dataset \cup {tag} |-> IF t = tag THEN value ELSE dataset[t]]

Dataset == [t \in {} |-> <<>>]

(***************************************************************************)
(* DICOMDeidentifier: the policy tables                                    *)
(***************************************************************************)
REMOVE_TAGS ==
   <<"PatientName", "PatientBirthDate", "PatientAddress", "PatientTelephoneNumbers",
     "PatientMotherBirthName", "MilitaryRank", "BranchOfService", "MedicalRecordLocator",
     "InstitutionName", "InstitutionAddress", "InstitutionalDepartmentName",
     "ReferringPhysicianName", "ReferringPhysicianAddress",
     "ReferringPhysicianTelephoneNumbers", "PerformingPhysicianName",
     "NameOfPhysiciansReadingStudy", "OperatorsName", "RequestingPhysician",
     "StudyIDIssuer", "IssuerOfPatientID", "DeviceSerialNumber", "PlateID", "ProtocolName",
     "StationName", "OtherPatientIDs", "OtherPatientNames", "RegionOfResidence",
     "CurrentPatientLocation", "PatientInstitutionResidence">>

HASH_TAGS == <<"PatientID", "AccessionNumber">>

DATE_TAGS ==
   <<"StudyDate", "SeriesDate", "AcquisitionDate", "ContentDate", "InstanceCreationDate">>

TIME_TAGS ==
   <<"StudyTime", "SeriesTime", "AcquisitionTime", "ContentTime", "InstanceCreationTime">>

DEFAULT_SALT ==
   <<"m", "e", "d", "i", "c", "a", "l", "-", "i", "m", "a", "g", "i", "n", "g", "-", "p",
     "i", "p", "e", "l", "i", "n", "e", "-", "d", "e", "f", "a", "u", "l", "t", "-", "s",
     "a", "l", "t">>

UNKNOWN == <<"u", "n", "k", "n", "o", "w", "n">>

AGE_90_PLUS == <<"0", "9", "0", "Y">>

YES == <<"Y", "E", "S">>

DEIDENTIFICATION_METHOD ==
   <<"H", "I", "P", "A", "A", " ", "S", "a", "f", "e", " ", "H", "a", "r", "b", "o", "r",
     " ", "w", "i", "t", "h", " ", "d", "a", "t", "e", " ", "s", "h", "i", "f", "t", "i",
     "n", "g", " ", "a", "n", "d", " ", "I", "D", " ", "h", "a", "s", "h", "i", "n", "g">>

\* the two private (odd group) elements, (0009,0010) and (0009,1001)
PRIVATE_TAGS == {"(0009,0010)", "(0009,1001)"}

\* elem.tag.is_private
is_private(tag) == tag \in PRIVATE_TAGS

Range(seq) == {seq[i] : i \in 1..Len(seq)}

(***************************************************************************)
(* State                                                                   *)
(*   salt, date_shift_days, _patient_date_shifts                           *)
(*              the fields of the DICOMDeidentifier instance               *)
(*   dataset    the dataset object handed to deidentify_dataset, which     *)
(*              changes it in place                                        *)
(*   original   the dataset as it was when the latest call began           *)
(*   call       the latest call on the instance and how it ended; repeat   *)
(*              tells that the instance returned a record of the same      *)
(*              patient before                                             *)
(*   returned   what the records returned by this instance came out with:  *)
(*              original patient id, PatientID afterwards, days shifted    *)
(*   passes     how often deidentify_dataset was applied to the dataset    *)
(*   hashlib    the digests of the strings the instance may hash           *)
(*   pads_year  whether the platform's strftime pads %Y to four digits     *)
(*   invocations  the invocations of _get_date_shift that callers sharing  *)
(*              the instance have under way: where each one stands, the    *)
(*              patient id it looks up, the shift it got last              *)
(*   policy     the class attributes REMOVE_TAGS and HASH_TAGS the         *)
(*              instance reads through self (a subclass may redefine them) *)
(*   emitted    the log records the latest operation handed to the loggers *)
(*   _sequence_tokens  the token cache of the CloudWatchHandler at hand    *)
(***************************************************************************)
VARIABLES salt, date_shift_days, _patient_date_shifts, dataset, original, call, returned,
          passes, hashlib, pads_year, invocations, policy, emitted, _sequence_tokens

vars ==
   <<salt, date_shift_days, _patient_date_shifts, dataset, original, call, returned,
     passes, hashlib, pads_year, invocations, policy, emitted, _sequence_tokens>>

(***************************************************************************)
(* Bounds and inputs                                                       *)
(***************************************************************************)
MaxPasses == 2

NumInvocations == 2

Invocations == 1..NumInvocations

PatientIds == {<<"P", "1">>, <<"P", "A", "T", "I", "E", "N", "T", "1", "2", "3">>}

ACCESSION_NUMBER == <<"A", "C", "C", "4", "5", "6">>

SaltArgs == {None, Some(<<>>), Some(<<"s">>)}

\* remove_private_tags, remove_pixel_data: the defaults and their opposites
FlagArgs == {<<TRUE, FALSE>>, <<FALSE, TRUE>>}

DateShiftArgs == {None, Some(0), Some(100), Some(0 - 100)}

ValidDates ==
   { <<"2", "0", "2", "3", "0", "6", "1", "5">>,
     <<"9", "9", "9", "9", "1", "2", "3", "1">>,
     <<"9", "9", "9", "9", "0", "9", "0", "1">>,
     <<"0", "0", "0", "1", "0", "1", "0", "1">>,
     <<"1", "0", "0", "0", "0", "1", "0", "1">> }

\* malformed for strptime: empty, too short, no such day, not digits
MalformedDates ==
   { <<>>,
     <<"I", "N", "V", "A", "L", "I", "D">>,
     <<"2", "0", "2", "3", "0", "2", "3", "0">>,
     <<"2", "0", "2", "3", "-", "6", "-", "5">> }

\* eight characters that are not eight digits, yet strptime parses them (5 June)
SpaceDayDate == <<"2", "0", "2", "3", "0", "6", " ", "5">>

DateValues == ValidDates \cup MalformedDates \cup {SpaceDayDate}

YearAges ==
   { <<"0", "4", "8", "Y">>,
     <<"0", "8", "9", "Y">>,
     <<"0", "9", "0", "Y">>,
     <<"0", "9", "2", "Y">>,
     <<"1", "5", "0", "Y">> }

OtherUnitAges == {<<"0", "9", "2", "M">>, <<"1", "2", "0", "W">>, <<"9", "9", "9", "D">>}

\* not of the form NNNu
MalformedAges ==
   { <<>>,
     <<"Y">>,
     <<"A", "B", "C", "Y">>,
     <<"9", ".", "5", "Y">>,
     <<"9", "2", "Y">> }

AgeValues == YearAges \cup OtherUnitAges \cup MalformedAges

(***************************************************************************)
(* hashlib.sha256(s.encode()).hexdigest() and hashlib.md5(...).hexdigest() *)
(* The digests of the strings a run can hash are computed once, when the   *)
(* run starts, and looked up afterwards; any other string is digested on   *)
(* the spot.                                                               *)
(***************************************************************************)
sha256(s) ==
   sha256_hexdigest(IF s \in DOMAIN hashlib.sha256 THEN hashlib.sha256[s]
                    ELSE sha256_digest(encode(s)))

md5(s) ==
   md5_hexdigest(IF s \in DOMAIN hashlib.md5 THEN hashlib.md5[s]
                 ELSE md5_digest(encode(s)))

\* int(hexdigest, 16) % m, digit by digit (the integer itself has 128 bits)
RECURSIVE HexMod(_, _)
HexMod(hex, m) ==
   IF hex = <<>> THEN 0
   ELSE (16 * HexMod(DropLast(hex), m)
         + (CHOOSE d \in 0..15 : HexDigits[d + 1] = hex[Len(hex)])) % m

(***************************************************************************)
(* DICOMDeidentifier.__init__(salt, date_shift_days)                       *)
(***************************************************************************)
init_salt(salt_arg) ==
   IF salt_arg = None \/ salt_arg = Some(<<>>) THEN DEFAULT_SALT ELSE salt_arg[1]

(***************************************************************************)
(* DICOMDeidentifier._hash_value(value)                                    *)
(***************************************************************************)
\* variants: a colon between value and salt; another part of the digest for
\* every record the instance returned
_hash_value_colon(value) == Prefix(sha256(value \o <<":">> \o salt), 16)

_hash_value_per_record(value) ==
   SubSeq(sha256(value \o salt), 1 + Cardinality(returned), 16 + Cardinality(returned))

_hash_value(value) == Prefix(sha256(value \o salt), 16)

(***************************************************************************)
(* DICOMDeidentifier._get_date_shift(patient_id): the shift returned and   *)
(* the registry afterwards                                                 *)
(***************************************************************************)
\* variants: the offset moved by the number of patients seen before; the
\* offset without the subtraction
derive_shift_by_order(patient_id) ==
   LET seen == Cardinality(DOMAIN _patient_date_shifts)
   IN  ((HexMod(md5(patient_id \o salt), 730) + seen) % 730) - 365

derive_shift_unshifted(patient_id) == HexMod(md5(patient_id \o salt), 730)

derive_shift(patient_id) == HexMod(md5(patient_id \o salt), 730) - 365

\* variant: a fixed shift of 0 counts as not set
_get_date_shift_truthy(patient_id) ==
   IF date_shift_days # None /\ date_shift_days[1] # 0
   THEN [shift |-> date_shift_days[1], shifts |-> _patient_date_shifts]
   ELSE LET shifts ==
               IF patient_id \notin DOMAIN _patient_date_shifts
               THEN _patient_date_shifts @@ (patient_id :> derive_shift(patient_id))
               ELSE _patient_date_shifts
        IN  [shift |-> shifts[patient_id], shifts |-> shifts]

\* variant: the registry keeps the latest patient only
_get_date_shift_latest_only(patient_id) ==
   IF date_shift_days # None
   THEN [shift |-> date_shift_days[1], shifts |-> _patient_date_shifts]
   ELSE LET shifts ==
               IF patient_id \notin DOMAIN _patient_date_shifts
               THEN (patient_id :> derive_shift(patient_id))
               ELSE _patient_date_shifts
        IN  [shift |-> shifts[patient_id], shifts |-> shifts]

_get_date_shift(patient_id) ==
   IF date_shift_days # None
   THEN [shift |-> date_shift_days[1], shifts |-> _patient_date_shifts]
   ELSE LET shifts ==
               IF patient_id \notin DOMAIN _patient_date_shifts
               THEN _patient_date_shifts @@ (patient_id :> derive_shift(patient_id))
               ELSE _patient_date_shifts
        IN  [shift |-> shifts[patient_id], shifts |-> shifts]

(***************************************************************************)
(* DICOMDeidentifier._shift_date(date_str, days): None, the shifted date,  *)
(* or the exception that leaves it (ValueError and TypeError are caught,   *)
(* the OverflowError of date + timedelta is not)                           *)
(***************************************************************************)
_shift_date(date_str, days) ==
   IF date_str = <<>> \/ Len(date_str) # 8
   THEN [raised |-> "", value |-> None]
   ELSE LET parsed == strptime(date_str)
            shifted == add_days(parsed.ordinal, days)
        IN  IF ~parsed.ok THEN [raised |-> "", value |-> None]
            ELSE IF ~shifted.ok THEN [raised |-> shifted.error, value |-> None]
            ELSE [raised |-> "", value |-> Some(strftime(shifted.ordinal, pads_year))]

(***************************************************************************)
(* The steps of deidentify_dataset, each on the dataset the step before    *)
(* left.  A step that can raise yields the dataset as the exception leaves *)
(* it and the exception's name ("" when none).                             *)
(***************************************************************************)
\* variant: the last tag of REMOVE_TAGS is kept
remove_phi_but_last(ds, i) ==
   [t \in DOMAIN ds \ {policy.REMOVE_TAGS[j] : j \in i..(Len(policy.REMOVE_TAGS) - 1)} |->
       ds[t]]

\* variant: the time tags are removed with the tags of REMOVE_TAGS
remove_phi_and_times(ds, i) ==
   [t \in DOMAIN ds \ ({policy.REMOVE_TAGS[j] : j \in i..Len(policy.REMOVE_TAGS)}
                        \cup Range(TIME_TAGS)) |-> ds[t]]

\* for tag in self.REMOVE_TAGS: if tag in dataset: delattr(dataset, tag)
RECURSIVE remove_phi(_, _)
remove_phi(ds, i) ==
   IF i > Len(policy.REMOVE_TAGS) THEN ds
   ELSE remove_phi(IF has(ds, policy.REMOVE_TAGS[i])
                   THEN delattr(ds, policy.REMOVE_TAGS[i])
                   ELSE ds,
                   i + 1)

\* for tag in self.HASH_TAGS: if tag in dataset: setattr(dataset, tag, _hash_value(...))
RECURSIVE hash_ids(_, _)
hash_ids(ds, i) ==
   IF i > Len(policy.HASH_TAGS) THEN ds
   ELSE hash_ids(IF has(ds, policy.HASH_TAGS[i])
                 THEN setattr(ds, policy.HASH_TAGS[i], _hash_value(ds[policy.HASH_TAGS[i]]))
                 ELSE ds,
                 i + 1)

\* for tag in DATE_TAGS: if tag in dataset: shift it, if _shift_date gave a date
RECURSIVE shift_dates(_, _, _)
shift_dates(ds, date_shift, i) ==
   IF i > Len(DATE_TAGS) THEN [dataset |-> ds, raised |-> ""]
   ELSE IF ~has(ds, DATE_TAGS[i]) THEN shift_dates(ds, date_shift, i + 1)
   ELSE LET shifted_date == _shift_date(ds[DATE_TAGS[i]], date_shift)
        IN  IF shifted_date.raised # "" THEN [dataset |-> ds, raised |-> shifted_date.raised]
            ELSE IF shifted_date.value # None /\ shifted_date.value[1] # <<>>
            THEN shift_dates(setattr(ds, DATE_TAGS[i], shifted_date.value[1]), date_shift, i + 1)
            ELSE shift_dates(ds, date_shift, i + 1)

\* variant: capping from 89 years on
cap_age_from_89(ds) ==
   IF has(ds, "PatientAge") /\ endswith(ds["PatientAge"], "Y")
   THEN LET age == int(DropLast(ds["PatientAge"]))
        IN  IF ~age.ok THEN [dataset |-> ds, raised |-> age.error]
            ELSE IF age.value >= 89
            THEN [dataset |-> setattr(ds, "PatientAge", AGE_90_PLUS), raised |-> ""]
            ELSE [dataset |-> ds, raised |-> ""]
   ELSE [dataset |-> ds, raised |-> ""]

\* if "PatientAge" in dataset: ages over 89 years become "090Y"
cap_age(ds) ==
   IF has(ds, "PatientAge") /\ endswith(ds["PatientAge"], "Y")
   THEN LET age == int(DropLast(ds["PatientAge"]))
        IN  IF ~age.ok THEN [dataset |-> ds, raised |-> age.error]
            ELSE IF age.value > 89
            THEN [dataset |-> setattr(ds, "PatientAge", AGE_90_PLUS), raised |-> ""]
            ELSE [dataset |-> ds, raised |-> ""]
   ELSE [dataset |-> ds, raised |-> ""]

\* variant: only the private creator elements (gggg,00xx) are removed
remove_private_tags_creators_only(ds) ==
   [t \in {u \in DOMAIN ds : u # "(0009,0010)"} |-> ds[t]]

\* dataset.remove_private_tags()
remove_private_tags(ds) == [t \in {u \in DOMAIN ds : ~is_private(u)} |-> ds[t]]

\* if remove_pixel_data and "PixelData" in dataset: delattr(dataset, "PixelData")
remove_pixels(ds, remove_pixel_data) ==
   IF remove_pixel_data /\ has(ds, "PixelData") THEN delattr(ds, "PixelData") ELSE ds

\* dataset.PatientIdentityRemoved = "YES"; dataset.DeidentificationMethod = ...
add_marker(ds) ==
   setattr(setattr(ds, "PatientIdentityRemoved", YES),
           "DeidentificationMethod", DEIDENTIFICATION_METHOD)

(***************************************************************************)
(* DICOMDeidentifier.deidentify_dataset(dataset, remove_private_tags,      *)
(* remove_pixel_data): the dataset afterwards, the exception that left the *)
(* call ("" when it returned), the registry afterwards, and the locals     *)
(* original_patient_id and date_shift.                                     *)
(***************************************************************************)
\* variant: the patient id is read after the hashing step
deidentify_dataset_hashed_lookup(ds, private_flag, pixel_flag) ==
   LET hashed  == hash_ids(remove_phi(ds, 1), 1)
       original_patient_id ==
          IF has(hashed, "PatientID") THEN hashed["PatientID"] ELSE UNKNOWN
       lookup  == _get_date_shift(original_patient_id)
       dated   == shift_dates(hashed, lookup.shift, 1)
       aged    == cap_age(dated.dataset)
       cleaned == remove_pixels(IF private_flag THEN remove_private_tags(aged.dataset)
                                ELSE aged.dataset,
                                pixel_flag)
       out     == [original_patient_id |-> original_patient_id,
                   date_shift |-> lookup.shift, shifts |-> lookup.shifts]
   IN  IF dated.raised # "" THEN out @@ [dataset |-> dated.dataset, raised |-> dated.raised]
       ELSE IF aged.raised # "" THEN out @@ [dataset |-> aged.dataset, raised |-> aged.raised]
       ELSE out @@ [dataset |-> add_marker(cleaned), raised |-> ""]

\* variant: a dataset that carries the marker is returned as it is
deidentify_dataset_guarded(ds, private_flag, pixel_flag) ==
   LET original_patient_id == IF has(ds, "PatientID") THEN ds["PatientID"] ELSE UNKNOWN
       lookup  == _get_date_shift(original_patient_id)
       hashed  == hash_ids(remove_phi(ds, 1), 1)
       dated   == shift_dates(hashed, lookup.shift, 1)
       aged    == cap_age(dated.dataset)
       cleaned == remove_pixels(IF private_flag THEN remove_private_tags(aged.dataset)
                                ELSE aged.dataset,
                                pixel_flag)
       out     == [original_patient_id |-> original_patient_id,
                   date_shift |-> lookup.shift, shifts |-> lookup.shifts]
   IN  IF has(ds, "PatientIdentityRemoved")
       THEN [original_patient_id |-> original_patient_id, date_shift |-> 0,
             shifts |-> _patient_date_shifts, dataset |-> ds, raised |-> ""]
       ELSE IF dated.raised # "" THEN out @@ [dataset |-> dated.dataset, raised |-> dated.raised]
       ELSE IF aged.raised # "" THEN out @@ [dataset |-> aged.dataset, raised |-> aged.raised]
       ELSE out @@ [dataset |-> add_marker(cleaned), raised |-> ""]

\* variant: the marker is stamped before the other steps
deidentify_dataset_marker_first(ds, private_flag, pixel_flag) ==
   LET original_patient_id == IF has(ds, "PatientID") THEN ds["PatientID"] ELSE UNKNOWN
       hashed  == hash_ids(remove_phi(add_marker(ds), 1), 1)
       lookup  == _get_date_shift(original_patient_id)
       dated   == shift_dates(hashed, lookup.shift, 1)
       aged    == cap_age(dated.dataset)
       cleaned == remove_pixels(IF private_flag THEN remove_private_tags(aged.dataset)
                                ELSE aged.dataset,
                                pixel_flag)
       out     == [original_patient_id |-> original_patient_id,
                   date_shift |-> lookup.shift, shifts |-> lookup.shifts]
   IN  IF dated.raised # "" THEN out @@ [dataset |-> dated.dataset, raised |-> dated.raised]
       ELSE IF aged.raised # "" THEN out @@ [dataset |-> aged.dataset, raised |-> aged.raised]
       ELSE out @@ [dataset |-> cleaned, raised |-> ""]

deidentify_dataset(ds, private_flag, pixel_flag) ==
   LET original_patient_id == IF has(ds, "PatientID") THEN ds["PatientID"] ELSE UNKNOWN
       hashed  == hash_ids(remove_phi(ds, 1), 1)
       lookup  == _get_date_shift(original_patient_id)
       dated   == shift_dates(hashed, lookup.shift, 1)
       aged    == cap_age(dated.dataset)
       cleaned == remove_pixels(IF private_flag THEN remove_private_tags(aged.dataset)
                                ELSE aged.dataset,
                                pixel_flag)
       out     == [original_patient_id |-> original_patient_id,
                   date_shift |-> lookup.shift, shifts |-> lookup.shifts]
   IN  IF dated.raised # "" THEN out @@ [dataset |-> dated.dataset, raised |-> dated.raised]
       ELSE IF aged.raised # "" THEN out @@ [dataset |-> aged.dataset, raised |-> aged.raised]
       ELSE out @@ [dataset |-> add_marker(cleaned), raised |-> ""]

(***************************************************************************)
(* utils.logger: what a call hands to the logger.  Every logger of the     *)
(* pipeline is made by get_logger(name), which gives it one handler,       *)
(* StreamHandler(sys.stdout); extra_fields is what the JSON line carries.  *)
(* Values are written as json.dumps / str() write them.                    *)
(***************************************************************************)
log_execution(logger, operation, status, fields) ==
   [logger |-> logger, stream |-> "sys.stdout",
    extra_fields |-> [operation |-> operation, status |-> status] @@ fields]

log_audit_event(logger, event_type, user, resource, action, result, details) ==
   [logger |-> logger, stream |-> "sys.stdout",
    extra_fields |-> [audit_event |-> TRUE, event_type |-> event_type, user |-> user,
                      resource |-> resource, action |-> action, result |-> result,
                      details |-> details]]

(***************************************************************************)
(* ValidatedDICOMParser.validate_dataset(dataset): the pydantic schemas    *)
(* applied to the tags DICOMParser.extract_metadata reads; the validated   *)
(* patient id and modality, or the field and input ValidationError names.  *)
(***************************************************************************)
validate_dataset(ds) ==
   LET get(tag) == IF has(ds, tag) THEN Some(ds[tag]) ELSE None
       str(o) == IF o = None THEN <<"N", "o", "n", "e">> ELSE o[1]
       IsUID(v) ==
          /\ v # <<>>
          /\ \A i \in 1..Len(v) : IsDigit(v[i]) \/ v[i] = "."
          /\ v[1] # "." /\ v[Len(v)] # "."
          /\ \A i \in 1..(Len(v) - 1) : ~(v[i] = "." /\ v[i + 1] = ".")
       upper(v) ==
          [i \in 1..Len(v) |->
              IF Ord(v[i]) \in 97..122 THEN ASCII[Ord(v[i]) - 63] ELSE v[i]]
       digits(v, a, b) == \A i \in a..b : IsDigit(v[i])
       patient_id == get("PatientID")
       patient_sex == get("PatientSex")
       patient_age == get("PatientAge")
       study_date == get("StudyDate")
       study_time == get("StudyTime")
       accession_number == get("AccessionNumber")
       modality == get("Modality")
       failed ==
          IF \/ patient_id = None
             \/ Len(patient_id[1]) \notin 1..64
             \/ \A i \in 1..Len(patient_id[1]) : patient_id[1][i] = " "
          THEN <<"patient_id", str(patient_id)>>
          ELSE IF patient_sex # None /\ patient_sex[1] \notin {<<"M">>, <<"F">>, <<"O">>}
          THEN <<"patient_sex", patient_sex[1]>>
          ELSE IF /\ patient_age # None
                  /\ ~(/\ Len(patient_age[1]) = 4
                       /\ digits(patient_age[1], 1, 3)
                       /\ patient_age[1][4] \in {"D", "W", "M", "Y"}
                       /\ ~(/\ patient_age[1][4] = "Y"
                            /\ DecimalVal(SubSeq(patient_age[1], 1, 3)) > 150))
          THEN <<"patient_age", patient_age[1]>>
          ELSE IF ~IsUID(str(get("StudyInstanceUID")))
          THEN <<"study_instance_uid", str(get("StudyInstanceUID"))>>
          ELSE IF /\ study_date # None
                  /\ ~(/\ Len(study_date[1]) = 8
                       /\ digits(study_date[1], 1, 8)
                       /\ strptime(study_date[1]).ok)
          THEN <<"study_date", study_date[1]>>
          ELSE IF /\ study_time # None
                  /\ ~(/\ Len(study_time[1]) >= 6
                       /\ digits(study_time[1], 1, 6)
                       /\ \/ Len(study_time[1]) = 6
                          \/ /\ Len(study_time[1]) \in 8..13
                             /\ study_time[1][7] = "."
                             /\ digits(study_time[1], 8, Len(study_time[1])))
          THEN <<"study_time", study_time[1]>>
          ELSE IF accession_number # None /\ Len(accession_number[1]) > 16
          THEN <<"accession_number", accession_number[1]>>
          ELSE IF ~IsUID(str(get("SeriesInstanceUID")))
          THEN <<"series_instance_uid", str(get("SeriesInstanceUID"))>>
          ELSE IF modality = None \/ Len(modality[1]) \notin 2..16
          THEN <<"modality", str(modality)>>
          ELSE IF ~IsUID(str(get("SOPInstanceUID")))
          THEN <<"sop_instance_uid", str(get("SOPInstanceUID"))>>
          ELSE IF ~IsUID(str(get("SOPClassUID")))
          THEN <<"sop_class_uid", str(get("SOPClassUID"))>>
          ELSE <<>>
   IN  IF failed = <<>>
       THEN [raised |-> "", patient_id |-> rstrip(lstrip(patient_id[1])),
             modality |-> upper(modality[1])]
       ELSE [raised |-> "ValidationError", loc |-> failed[1], input_value |-> failed[2]]

\* variant: the date tags are left out of phi_tags_present
get_deidentification_report_without_dates(ds) ==
   LET present(tag) == has(ds, tag)
       tags_to_remove == SelectSeq(policy.REMOVE_TAGS, present)
       tags_to_hash == SelectSeq(policy.HASH_TAGS, present)
       tags_to_shift == SelectSeq(DATE_TAGS, present)
       phi_tags_present == tags_to_remove \o tags_to_hash
   IN  [dataset |-> ds,
        report |-> [phi_tags_present |-> phi_tags_present,
                    tags_to_remove |-> tags_to_remove,
                    tags_to_hash |-> tags_to_hash,
                    tags_to_shift |-> tags_to_shift,
                    private_tags_count |-> Cardinality({t \in DOMAIN ds : is_private(t)}),
                    total_phi_elements |-> Len(phi_tags_present)]]

(***************************************************************************)
(* DICOMDeidentifier.get_deidentification_report(dataset): the report and  *)
(* the dataset afterwards                                                  *)
(***************************************************************************)
get_deidentification_report(ds) ==
   LET present(tag) == has(ds, tag)
       tags_to_remove == SelectSeq(policy.REMOVE_TAGS, present)
       tags_to_hash == SelectSeq(policy.HASH_TAGS, present)
       tags_to_shift == SelectSeq(DATE_TAGS, present)
       phi_tags_present == tags_to_remove \o tags_to_hash \o tags_to_shift
   IN  [dataset |-> ds,
        report |-> [phi_tags_present |-> phi_tags_present,
                    tags_to_remove |-> tags_to_remove,
                    tags_to_hash |-> tags_to_hash,
                    tags_to_shift |-> tags_to_shift,
                    private_tags_count |-> Cardinality({t \in DOMAIN ds : is_private(t)}),
                    total_phi_elements |-> Len(phi_tags_present)]]

(***************************************************************************)
(* The datasets handed to the instance: the fixture of the unit tests, a   *)
(* bare dataset and one holding every tag of the policy, each with and     *)
(* without a PatientID, a StudyDate and a PatientAge.                      *)
(***************************************************************************)
Opt(values) == {None} \cup {Some(v) : v \in values}

with(ds, tag, opt) == IF opt = None THEN ds ELSE setattr(ds, tag, opt[1])

BARE ==
   ("SOPInstanceUID" :> <<"1", ".", "2", ".", "3", ".", "4", ".", "5", ".", "6", ".", "7", ".", "8", ".", "1", "1">>) @@ ("Modality" :> <<"C", "T">>)

SAMPLE ==
   BARE
   @@ ("PatientName" :> <<"D", "o", "e", "^", "J", "o", "h", "n">>)
   @@ ("PatientBirthDate" :> <<"1", "9", "7", "5", "0", "3", "1", "5">>)
   @@ ("PatientSex" :> <<"M">>)
   @@ ("PatientAddress" :> <<"1", "2", "3", " ", "M", "a", "i", "n", " ", "S", "t", ",", " ", "C", "i", "t", "y", ",", " ", "S", "t", "a", "t", "e">>)
   @@ ("InstitutionName" :> <<"T", "e", "s", "t", " ", "H", "o", "s", "p", "i", "t", "a", "l">>)
   @@ ("ReferringPhysicianName" :> <<"D", "r", ".", " ", "S", "m", "i", "t", "h">>)
   @@ ("StudyInstanceUID" :> <<"1", ".", "2", ".", "3", ".", "4", ".", "5", ".", "6", ".", "7", ".", "8", ".", "9">>)
   @@ ("SeriesInstanceUID" :> <<"1", ".", "2", ".", "3", ".", "4", ".", "5", ".", "6", ".", "7", ".", "8", ".", "1", "0">>)
   @@ ("StudyTime" :> <<"1", "4", "3", "0", "0", "0">>)
   @@ ("AccessionNumber" :> ACCESSION_NUMBER)

FULL ==
   SAMPLE
   @@ [t \in Range(REMOVE_TAGS) |-> <<"P", "H", "I">>]
   @@ [t \in Range(TIME_TAGS) |-> <<"1", "4", "3", "0", "0", "0", ".", "5">>]
   @@ [t \in Range(DATE_TAGS) |-> <<"2", "0", "2", "3", "0", "6", "1", "5">>]
   @@ ("(0009,0010)" :> <<"P", "R", "I", "V", "A", "T", "E", "_", "C", "R", "E", "A", "T", "O", "R">>)
   @@ ("(0009,1001)" :> <<"P", "r", "i", "v", "a", "t", "e", " ", "D", "a", "t", "a">>)
   @@ ("PixelData" :> <<"p", "i", "x", "e", "l", "s">>)

Build(base, pids, dates, ages) ==
   {with(with(with(base, "PatientID", p), "StudyDate", d), "PatientAge", a) :
       p \in pids, d \in dates, a \in ages}

\* records of several patients, with everything the policy names
Datasets ==
   Build(SAMPLE, Opt(PatientIds), {Some(<<"2", "0", "2", "3", "0", "6", "1", "5">>)}, {Some(<<"0", "4", "8", "Y">>)})
   \cup Build(BARE, Opt(PatientIds), {None}, {None})
   \cup Build(FULL, {Some(<<"P", "1">>)}, {Some(<<"2", "0", "2", "3", "0", "6", "1", "5">>), Some(<<"I", "N", "V", "A", "L", "I", "D">>)},
              {Some(<<"0", "9", "2", "Y">>)})

\* records of one patient with every kind of StudyDate
DatedDatasets ==
   Build(SAMPLE, {Some(<<"P", "A", "T", "I", "E", "N", "T", "1", "2", "3">>)}, Opt(DateValues), {Some(<<"0", "4", "8", "Y">>)})
   \cup Build(BARE, {Some(<<"P", "A", "T", "I", "E", "N", "T", "1", "2", "3">>)}, {Some(<<"I", "N", "V", "A", "L", "I", "D">>)}, {Some(<<"A", "B", "C", "Y">>)})

\* records of one patient with every kind of PatientAge
AgedDatasets == Build(BARE, {Some(<<"P", "1">>)}, {None}, Opt(AgeValues))

(***************************************************************************)
(* The digests a run can ask for: of value + salt for every PatientID and  *)
(* AccessionNumber above, and of what a further pass makes of them.        *)
(***************************************************************************)
RECURSIVE digests(_, _, _)
digests(value, s, k) ==
   IF k = 0 THEN [sha256 |-> <<>>, md5 |-> <<>>]
   ELSE LET d == sha256_digest(encode(value \o s))
            rest == digests(Prefix(sha256_hexdigest(d), 16), s, k - 1)
        IN  [sha256 |-> ((value \o s) :> d) @@ rest.sha256,
             md5 |-> ((value \o s) :> md5_digest(encode(value \o s))) @@ rest.md5]

RECURSIVE digest_all(_)
digest_all(seeds) ==
   IF seeds = {} THEN [sha256 |-> <<>>, md5 |-> <<>>]
   ELSE LET seed == CHOOSE x \in seeds : TRUE
            a == digests(seed[1], seed[2], MaxPasses)
            b == digest_all(seeds \ {seed})
        IN  [sha256 |-> a.sha256 @@ b.sha256, md5 |-> a.md5 @@ b.md5]

Salts == {init_salt(a) : a \in SaltArgs}

Seeds == (PatientIds \cup {ACCESSION_NUMBER, UNKNOWN}) \X Salts

(***************************************************************************)
(* Init: an instance as __init__ leaves it, an empty dataset               *)
(***************************************************************************)
NoCall ==
   [op |-> "none", patient_id |-> <<>>, date_shift |-> None, raised |-> "",
    private_flag |-> FALSE, pixel_flag |-> FALSE, repeat |-> FALSE]

\* the class attributes of DICOMDeidentifier
DICOMDeidentifier == [REMOVE_TAGS |-> REMOVE_TAGS, HASH_TAGS |-> HASH_TAGS]

Idle == [pc |-> "idle", patient_id |-> <<>>, shift |-> None]

Init ==
   /\ hashlib = digest_all(Seeds)
   /\ pads_year \in BOOLEAN
   /\ \E salt_arg \in SaltArgs : salt = init_salt(salt_arg)
   /\ date_shift_days \in DateShiftArgs
   /\ _patient_date_shifts = <<>>
   /\ dataset = Dataset
   /\ original = Dataset
   /\ call = NoCall
   /\ returned = {}
   /\ passes = 0
   /\ invocations = [i \in Invocations |-> Idle]
   /\ policy = DICOMDeidentifier
   /\ emitted = <<>>
   /\ _sequence_tokens = <<>>

(***************************************************************************)
(* DICOMDeidentifier(salt, date_shift_days): a new instance replaces the   *)
(* one at hand                                                             *)
(***************************************************************************)
New(classes) ==
   \E cls \in classes, salt_arg \in SaltArgs, days_arg \in DateShiftArgs :
      /\ policy' = cls
      /\ salt' = init_salt(salt_arg)
      /\ date_shift_days' = days_arg
      /\ _patient_date_shifts' = <<>>
      /\ dataset' = Dataset
      /\ original' = Dataset
      /\ call' = NoCall
      /\ returned' = {}
      /\ passes' = 0
      /\ emitted' = <<>>
      /\ UNCHANGED <<hashlib, pads_year, invocations,
                     _sequence_tokens>>

Construct == New({DICOMDeidentifier})

\* a subclass that also lists PatientName, a tag of REMOVE_TAGS, in HASH_TAGS
Subclass == [DICOMDeidentifier EXCEPT !.HASH_TAGS = HASH_TAGS \o <<"PatientName">>]

ConstructSubclass == New({DICOMDeidentifier, Subclass})

(***************************************************************************)
(* The caller obtains a dataset from the decoder (pydicom.dcmread)         *)
(***************************************************************************)
Load(datasets) ==
   \E ds \in datasets :
      /\ dataset' = ds
      /\ original' = ds
      /\ call' = NoCall
      /\ passes' = 0
      /\ emitted' = <<>>
      /\ UNCHANGED <<salt, date_shift_days, _patient_date_shifts, returned, hashlib,
                     pads_year, invocations, policy,
                     _sequence_tokens>>

LoadDataset == Load(Datasets)

LoadDated == Load(DatedDatasets)

LoadAged == Load(AgedDatasets)

(***************************************************************************)
(* deidentifier.deidentify_dataset(dataset, remove_private_tags,           *)
(* remove_pixel_data)                                                      *)
(***************************************************************************)
DeidentifyDataset ==
   /\ passes < MaxPasses
   /\ \E flags \in FlagArgs :
      \E r \in {deidentify_dataset(dataset, flags[1], flags[2])} :
         /\ passes' = passes + 1
         /\ original' = dataset
         /\ dataset' = r.dataset
         /\ _patient_date_shifts' = r.shifts
         /\ call' = [op |-> "deidentify_dataset", patient_id |-> r.original_patient_id,
                     date_shift |-> Some(r.date_shift), raised |-> r.raised,
                     private_flag |-> flags[1], pixel_flag |-> flags[2],
                     repeat |-> \E x \in returned : x.patient_id = r.original_patient_id]
         /\ returned' =
               IF r.raised # "" THEN returned
               ELSE returned \cup
                    {[patient_id |-> r.original_patient_id,
                      hashed_id |-> IF has(r.dataset, "PatientID")
                                    THEN Some(r.dataset["PatientID"]) ELSE None,
                      date_shift |-> r.date_shift]}
         /\ emitted' =
               LET sop_instance_uid(ds) ==
                      IF has(ds, "SOPInstanceUID") THEN ds["SOPInstanceUID"] ELSE UNKNOWN
                   str_bool(v) == IF v THEN <<"T", "r", "u", "e">> ELSE <<"F", "a", "l", "s", "e">>
                   str_int(v) == IF v < 0 THEN <<"-">> \o Decimal(0 - v, 1) ELSE Decimal(v, 1)
                   log == "src.ingestion.deidentifier"
               IN  <<log_execution(log, "deidentify_dataset", "started",
                        [details |->
                            [sop_instance_uid |-> sop_instance_uid(dataset),
                             remove_private_tags |-> str_bool(flags[1]),
                             remove_pixel_data |-> str_bool(flags[2])]])>>
                   \o
                   IF r.raised # ""
                   THEN <<log_execution(log, "deidentify_dataset", "failed",
                             [error |->
                                 [type |-> r.raised,
                                  message |->
                                     IF r.raised = "OverflowError"
                                     THEN <<"d", "a", "t", "e", " ", "v", "a", "l", "u", "e", " ", "o", "u", "t", " ", "o", "f", " ", "r", "a", "n", "g", "e">>
                                     ELSE <<"i", "n", "v", "a", "l", "i", "d", " ", "l", "i", "t", "e", "r", "a", "l", " ", "f", "o", "r", " ", "i", "n", "t", "(", ")", " ", "w", "i", "t", "h", " ", "b", "a", "s", "e", " ", "1", "0", ":", " ">>
                                          \o <<"squote">>
                                          \o DropLast(r.dataset["PatientAge"])
                                          \o <<"squote">>]])>>
                   ELSE <<log_audit_event(log, "phi_deidentification",
                             "deidentification-service",
                             <<"D", "I", "C", "O", "M", ":">> \o sop_instance_uid(r.dataset),
                             "deidentify", "success",
                             [original_patient_id |-> r.original_patient_id,
                              hashed_patient_id |->
                                 IF has(r.dataset, "PatientID") THEN r.dataset["PatientID"]
                                 ELSE <<>>,
                              date_shift_days |-> str_int(r.date_shift),
                              private_tags_removed |-> str_bool(flags[1])]),
                          log_execution(log, "deidentify_dataset", "completed",
                             [details |->
                                 [sop_instance_uid |-> sop_instance_uid(r.dataset)]])>>
         /\ UNCHANGED <<salt, date_shift_days, hashlib, pads_year, invocations, policy,
                     _sequence_tokens>>

(***************************************************************************)
(* Specifications: one instance after another, each handed records of      *)
(* several patients (Spec), of one patient with all kinds of dates         *)
(* (SpecDates), of one patient with all kinds of ages (SpecAges)           *)
(***************************************************************************)
Next == Construct \/ LoadDataset \/ DeidentifyDataset

Spec == Init /\ [][Next]_vars

NextDates == Construct \/ LoadDated \/ DeidentifyDataset

SpecDates == Init /\ [][NextDates]_vars

NextAges == Construct \/ LoadAged \/ DeidentifyDataset

SpecAges == Init /\ [][NextAges]_vars

\* the test fixture, which has a PatientName
LoadSample == Load(Build(SAMPLE, {Some(<<"P", "1">>)}, {Some(<<"2", "0", "2", "3", "0", "6", "1", "5">>)}, {Some(<<"0", "4", "8", "Y">>)}))

NextPolicy == ConstructSubclass \/ LoadSample \/ DeidentifyDataset

SpecPolicy == Init /\ [][NextPolicy]_vars

(***************************************************************************)
(* _get_date_shift(patient_id) called by several callers that share the    *)
(* instance (threads of one process).  The method takes no lock, and the   *)
(* interpreter may switch threads between its statements, so each          *)
(* invocation goes statement by statement:                                 *)
(*   "lookup"  if patient_id not in self._patient_date_shifts              *)
(*   "insert"  shift = (hash % 730) - 365; _patient_date_shifts[id] = shift*)
(*   "return"  return self._patient_date_shifts[patient_id]                *)
(***************************************************************************)
\* the call, and "if self.date_shift_days is not None: return it"
Invoke ==
   \E i \in Invocations, patient_id \in PatientIds \cup {UNKNOWN} :
      /\ invocations[i].pc = "idle"
      /\ invocations' =
            [invocations EXCEPT
               ![i] = IF date_shift_days # None
                      THEN [pc |-> "idle", patient_id |-> patient_id,
                            shift |-> date_shift_days]
                      ELSE [pc |-> "lookup", patient_id |-> patient_id, shift |-> None]]
      /\ UNCHANGED <<salt, date_shift_days, _patient_date_shifts, dataset, original, call,
                     returned, passes, hashlib, pads_year, policy,
                     emitted,
                     _sequence_tokens>>

Lookup ==
   \E i \in Invocations :
      /\ invocations[i].pc = "lookup"
      /\ invocations' =
            [invocations EXCEPT
               ![i].pc = IF invocations[i].patient_id \notin DOMAIN _patient_date_shifts
                         THEN "insert" ELSE "return"]
      /\ UNCHANGED <<salt, date_shift_days, _patient_date_shifts, dataset, original, call,
                     returned, passes, hashlib, pads_year, policy,
                     emitted,
                     _sequence_tokens>>

Insert ==
   \E i \in Invocations :
      /\ invocations[i].pc = "insert"
      /\ \E shift \in {derive_shift(invocations[i].patient_id)} :
            _patient_date_shifts' =
               [p \in DOMAIN _patient_date_shifts \cup {invocations[i].patient_id} |->
                   IF p = invocations[i].patient_id THEN shift ELSE _patient_date_shifts[p]]
      /\ invocations' = [invocations EXCEPT ![i].pc = "return"]
      /\ UNCHANGED <<salt, date_shift_days, dataset, original, call, returned, passes,
                     hashlib, pads_year, policy, emitted,
                     _sequence_tokens>>

Return ==
   \E i \in Invocations :
      /\ invocations[i].pc = "return"
      /\ invocations' =
            [invocations EXCEPT
               ![i].pc = "idle",
               ![i].shift = Some(_patient_date_shifts[invocations[i].patient_id])]
      /\ UNCHANGED <<salt, date_shift_days, _patient_date_shifts, dataset, original, call,
                     returned, passes, hashlib, pads_year, policy,
                     emitted,
                     _sequence_tokens>>

NextShared == Invoke \/ Lookup \/ Insert \/ Return

SpecShared == Init /\ [][NextShared]_vars

(***************************************************************************)
(* ValidatedDICOMParser.parse_and_validate(file_path) on the file the      *)
(* dataset at hand was read from: read_dicom_file, validate_dataset, and   *)
(* the log records of both.                                                *)
(***************************************************************************)
ParseAndValidate ==
   \E v \in {IF has(dataset, "SOPInstanceUID") THEN validate_dataset(dataset)
             ELSE [raised |-> "AttributeError"]} :
      /\ original' = dataset
      /\ call' = [NoCall EXCEPT !.op = "parse_and_validate", !.raised = v.raised]
      /\ emitted' =
            LET file_path == [file_path |-> <<"/", "t", "m", "p", "/", "s", "c", "a", "n", ".", "d", "c", "m">>]
                pv == "src.ingestion.validated_parser"
                dp == "src.ingestion.dicom_parser"
                no_attribute ==
                   [type |-> "AttributeError",
                    message |-> <<"squote">> \o <<"D", "a", "t", "a", "s", "e", "t">> \o <<"squote">>
                                \o <<" ", "o", "b", "j", "e", "c", "t", " ", "h", "a", "s", " ", "n", "o", " ", "a", "t", "t", "r", "i", "b", "u", "t", "e", " ">>
                                \o <<"squote">> \o <<"S", "O", "P", "I", "n", "s", "t", "a", "n", "c", "e", "U", "I", "D">> \o <<"squote">>]
            IN  <<log_execution(pv, "parse_and_validate", "started", [details |-> file_path]),
                  log_execution(dp, "read_dicom_file", "started", [details |-> file_path])>>
                \o
                IF v.raised = "AttributeError"
                THEN <<log_execution(dp, "read_dicom_file", "failed",
                          [details |-> file_path, error |-> no_attribute]),
                       log_execution(pv, "parse_and_validate", "failed",
                          [details |-> file_path, error |-> no_attribute])>>
                ELSE <<log_execution(dp, "read_dicom_file", "completed",
                          [details |->
                              file_path @@ [sop_instance_uid |-> dataset["SOPInstanceUID"]]]),
                       IF v.raised = ""
                       THEN log_execution(pv, "parse_and_validate", "completed",
                               [details |->
                                   file_path @@ [patient_id |-> v.patient_id,
                                                 modality |-> v.modality]])
                       ELSE log_execution(pv, "parse_and_validate", "failed",
                               [details |->
                                   file_path @@ [validation_errors |-> v.input_value],
                                error |-> [type |-> v.raised, message |-> v.input_value]])>>
      /\ UNCHANGED <<salt, date_shift_days, _patient_date_shifts, dataset, returned, passes,
                     hashlib, pads_year, invocations, policy,
                     _sequence_tokens>>

\* a file that validates, and one whose StudyDate does not
LoadValidated ==
   Load(Build(SAMPLE @@ ("SOPClassUID" :> <<"1", ".", "2", ".", "8", "4", "0", ".", "1", "0", "0", "0", "8", ".", "5", ".", "1", ".", "4", ".", "1", ".", "1", ".", "2">>),
              {Some(<<"P", "1">>)}, {Some(<<"2", "0", "2", "3", "0", "6", "1", "5">>), Some(<<"I", "N", "V", "A", "L", "I", "D">>)}, {Some(<<"0", "4", "8", "Y">>)}))

NextTelemetry == Construct \/ LoadValidated \/ ParseAndValidate \/ DeidentifyDataset

SpecTelemetry == Init /\ [][NextTelemetry]_vars

(***************************************************************************)
(* get_deidentification_report(dataset) on the dataset at hand             *)
(***************************************************************************)
GetDeidentificationReport ==
   \E r \in {get_deidentification_report(dataset)} :
      /\ original' = dataset
      /\ dataset' = r.dataset
      /\ call' = [op |-> "get_deidentification_report", report |-> r.report] @@ NoCall
      /\ emitted' = <<>>
      /\ UNCHANGED <<salt, date_shift_days, _patient_date_shifts, returned, passes, hashlib,
                     pads_year, invocations, policy,
                     _sequence_tokens>>

\* a record with every tag the policy names and two private tags, and one with none
LoadReported ==
   Load(Build(FULL, {Some(<<"P", "1">>)}, {Some(<<"2", "0", "2", "3", "0", "6", "1", "5">>)}, {Some(<<"0", "9", "2", "Y">>)})
        \cup Build(BARE, {None}, {None}, {None}))

NextReport == Construct \/ LoadReported \/ DeidentifyDataset \/ GetDeidentificationReport

SpecReport == Init /\ [][NextReport]_vars

(***************************************************************************)
(* _shift_date(date_str, days) called on its own, and called again on the  *)
(* date it returned with the opposite number of days                       *)
(***************************************************************************)
ShiftDate ==
   \E date_str \in DateValues, days \in {0 - 365, 0 - 100, 0 - 1, 0, 1, 100, 365} :
      \E r \in {_shift_date(date_str, days)} :
         /\ call' = [op |-> "_shift_date", date_str |-> date_str, days |-> days,
                     raised |-> r.raised, value |-> r.value, back_from |-> None] @@ NoCall
         /\ UNCHANGED <<salt, date_shift_days, _patient_date_shifts, dataset, original,
                        returned, passes, hashlib, pads_year, invocations, policy, emitted,
                     _sequence_tokens>>

ShiftBack ==
   /\ call.op = "_shift_date"
   /\ call.back_from = None
   /\ call.value # None
   /\ \E r \in {_shift_date(call.value[1], 0 - call.days)} :
         call' = [op |-> "_shift_date", date_str |-> call.value[1], days |-> 0 - call.days,
                  raised |-> r.raised, value |-> r.value,
                  back_from |-> Some(call.date_str)] @@ NoCall
   /\ UNCHANGED <<salt, date_shift_days, _patient_date_shifts, dataset, original, returned,
                  passes, hashlib, pads_year, invocations, policy, emitted,
                     _sequence_tokens>>

NextShift == ShiftDate \/ ShiftBack

SpecShift == Init /\ [][NextShift]_vars

(***************************************************************************)
(* CloudWatchHandler: put_log_events(log_stream_name, messages,            *)
(* log_group_name) and delete_log_group(log_group_name) on one handler,    *)
(* with the answer of the logs client as an input.  The cache maps         *)
(* "<group>/<stream>" to the token the client returned last.               *)
(***************************************************************************)
PutLogEvents ==
   \E group_name \in {<<"/", "a", "p", "p">>, <<"/", "a", "p", "p", "-", "2">>, <<"/", "w", "e", "b">>}, log_stream_name \in {<<"s", "1">>, <<"s", "2">>},
      response \in {[raised |-> "ClientError"], [raised |-> "", nextSequenceToken |-> None],
                    [raised |-> "", nextSequenceToken |-> Some("token-1")]} :
      LET stream_key == group_name \o <<"/">> \o log_stream_name
      IN  /\ _sequence_tokens' =
                IF response.raised = "" /\ response.nextSequenceToken # None
                THEN [k \in DOMAIN _sequence_tokens \cup {stream_key} |->
                         IF k = stream_key THEN response.nextSequenceToken[1]
                         ELSE _sequence_tokens[k]]
                ELSE _sequence_tokens
          /\ call' = [op |-> "put_log_events", log_group |-> group_name,
                      log_stream |-> log_stream_name, raised |-> response.raised,
                      cache |-> _sequence_tokens] @@ NoCall
          /\ UNCHANGED <<salt, date_shift_days, _patient_date_shifts, dataset, original,
                         returned, passes, hashlib, pads_year, invocations, policy, emitted>>

DeleteLogGroup ==
   \E group_name \in {<<"/", "a", "p", "p">>, <<"/", "a", "p", "p", "-", "2">>, <<"/", "w", "e", "b">>}, raised \in {"", "ClientError"} :
      LET startswith(key) ==
             Len(key) >= Len(group_name) /\ SubSeq(key, 1, Len(group_name)) = group_name
      IN  /\ _sequence_tokens' =
                IF raised = ""
                THEN [k \in {key \in DOMAIN _sequence_tokens : ~startswith(key)} |->
                         _sequence_tokens[k]]
                ELSE _sequence_tokens
          /\ call' = [op |-> "delete_log_group", log_group |-> group_name, raised |-> raised,
                      cache |-> _sequence_tokens] @@ NoCall
          /\ UNCHANGED <<salt, date_shift_days, _patient_date_shifts, dataset, original,
                         returned, passes, hashlib, pads_year, invocations, policy, emitted>>

NextCloudWatch == PutLogEvents \/ DeleteLogGroup

SpecCloudWatch == Init /\ [][NextCloudWatch]_vars

(***************************************************************************)
(* orchestration.lambda_handlers: IngestionHandler.handle(event, context)  *)
(* and DeidentificationHandler.handle(event, context) on an S3 event.  Per *)
(* record the inputs are the object key, what download_file and            *)
(* upload_file raise ("" when they return) and the StudyDate or PatientAge *)
(* of the dataset in the file; an input of a step the record does not      *)
(* reach keeps its first value, and the records of an event name          *)
(* different objects.  What put_metric_data raises is caught and           *)
(* changes nothing, so it is no input.  The response, and                  *)
(* per record the metric put_metric_data was called with, are kept in      *)
(* call.  An entry's error is the exception whose str() the entry carries. *)
(***************************************************************************)
\* variant: only the entries of the records that succeeded are reported
processing_result_of_successes(results) ==
   LET successes == SelectSeq(results, LAMBDA e : e.status = "success")
   IN  [processed |-> Len(successes), results |-> successes]

\* what handle returns
processing_result(results) == [processed |-> Len(results), results |-> results]

HandleIngestion ==
   \E enable_cloudwatch \in BOOLEAN,
      parsed \in {[date \in {<<"2", "0", "2", "3", "0", "6", "1", "5">>, <<"I", "N", "V", "A", "L", "I", "D">>} |->
                     validate_dataset(setattr(SAMPLE
                                              @@ ("SOPClassUID" :> <<"1", ".", "2", ".", "8", "4", "0", ".", "1", "0", "0", "0", "8", ".", "5", ".", "1", ".", "4", ".", "1", ".", "1", ".", "2">>)
                                              @@ ("PatientID" :> <<"P", "1">>)
                                              @@ ("PatientAge" :> <<"0", "4", "8", "Y">>),
                                              "StudyDate", date))]} :
   \E records \in UNION {[1..n ->
                            {r \in [key : {<<"a", ".", "d", "c", "m">>, <<"b", "+", "c", ".", "d", "c", "m">>},
                                    download : {"", "ClientError"},
                                    date : {<<"2", "0", "2", "3", "0", "6", "1", "5">>, <<"I", "N", "V", "A", "L", "I", "D">>},
                                    upload : {"", "ClientError"}] :
                                /\ r.download # "" => r.date = <<"2", "0", "2", "3", "0", "6", "1", "5">>
                                /\ r.download # "" \/ r.date = <<"I", "N", "V", "A", "L", "I", "D">> => r.upload = ""}] :
                          n \in 0..2} :
      /\ \A i, j \in 1..Len(records) : i # j => records[i].key # records[j].key
      /\ LET unquote_plus(s) == [i \in 1..Len(s) |-> IF s[i] = "+" THEN " " ELSE s[i]]
             failed(key, e) == [status |-> "failed", source_key |-> key, error |-> e]
             entry(record) ==
                LET key == unquote_plus(record.key)
                    validated_metadata == parsed[record.date]
                IN  IF record.download # "" THEN failed(key, record.download)
                    ELSE IF validated_metadata.raised # ""
                    THEN failed(key, validated_metadata.raised)
                    ELSE IF record.upload # "" THEN failed(key, record.upload)
                    ELSE [status |-> "success", source_key |-> key,
                          validated_key |-> <<"v", "a", "l", "i", "d", "a", "t", "e", "d", "/">> \o key,
                          metadata |-> [patient_id |-> validated_metadata.patient_id,
                                        modality |-> validated_metadata.modality]]
             results == [i \in 1..Len(records) |-> entry(records[i])]
         IN  /\ call' = [op |-> "IngestionHandler.handle", records |-> records,
                         enable_cloudwatch |-> enable_cloudwatch,
                         response |-> processing_result(results),
                         metrics |-> [i \in 1..Len(records) |->
                                         IF enable_cloudwatch /\ results[i].status = "success"
                                         THEN Some("FilesProcessed") ELSE None]] @@ NoCall
             /\ UNCHANGED <<salt, date_shift_days, _patient_date_shifts, dataset, original,
                            returned, passes, hashlib, pads_year, invocations, policy, emitted,
                            _sequence_tokens>>

\* the instance at hand is the DICOMDeidentifier() the handler built
HandleDeidentification ==
   /\ salt = DEFAULT_SALT /\ date_shift_days = None /\ policy = DICOMDeidentifier
   /\ \E enable_cloudwatch \in BOOLEAN,
         file \in {[age \in {<<"0", "4", "8", "Y">>, <<"A", "B", "C", "Y">>} |->
                      SAMPLE @@ ("PatientID" :> <<"P", "1">>) @@ ("StudyDate" :> <<"2", "0", "2", "3", "0", "6", "1", "5">>)
                      @@ ("PatientAge" :> age)]} :
      \E deidentified_dataset \in
            {[age \in {<<"0", "4", "8", "Y">>, <<"A", "B", "C", "Y">>} |-> deidentify_dataset(file[age], TRUE, FALSE)]} :
      \E records \in UNION {[1..n ->
                               {r \in [key : {<<"a", ".", "d", "c", "m">>, <<"b", "+", "c", ".", "d", "c", "m">>},
                                       download : {"", "ClientError"},
                                       age : {<<"0", "4", "8", "Y">>, <<"A", "B", "C", "Y">>},
                                       upload : {"", "ClientError"}] :
                                   /\ r.download # "" => r.age = <<"0", "4", "8", "Y">>
                                   /\ r.download # "" \/ r.age = <<"A", "B", "C", "Y">> => r.upload = ""}] :
                             n \in 0..2} :
         /\ \A i, j \in 1..Len(records) : i # j => records[i].key # records[j].key
         /\ LET unquote_plus(s) == [i \in 1..Len(s) |-> IF s[i] = "+" THEN " " ELSE s[i]]
                failed(key, e) == [status |-> "failed", source_key |-> key, error |-> e]
                \* deidentify_file: dcmread, deidentify_dataset, save_as; returns None
                deidentify_file(age) ==
                   [raised |-> deidentified_dataset[age].raised, value |-> None,
                    shifts |-> deidentified_dataset[age].shifts]
                entry(record) ==
                   LET key == unquote_plus(record.key)
                       mapping == deidentify_file(record.age)
                   IN  IF record.download # "" THEN failed(key, record.download)
                       ELSE IF mapping.raised # "" THEN failed(key, mapping.raised)
                       ELSE IF record.upload # "" THEN failed(key, record.upload)
                       ELSE IF mapping.value = None THEN failed(key, "AttributeError")
                       ELSE [status |-> "success", source_key |-> key,
                             deidentified_key |-> <<"d", "e", "i", "d", "e", "n", "t", "i", "f", "i", "e", "d", "/">> \o key,
                             anonymized_patient_id |-> mapping.value[1]]
                results == [i \in 1..Len(records) |-> entry(records[i])]
                read == {deidentify_file(records[i].age) :
                            i \in {j \in 1..Len(records) : records[j].download = ""}}
            IN  /\ _patient_date_shifts' =
                      [p \in DOMAIN _patient_date_shifts \cup UNION {DOMAIN m.shifts : m \in read} |->
                          IF p \in DOMAIN _patient_date_shifts THEN _patient_date_shifts[p]
                          ELSE (CHOOSE m \in read : p \in DOMAIN m.shifts).shifts[p]]
                /\ call' = [op |-> "DeidentificationHandler.handle", records |-> records,
                            enable_cloudwatch |-> enable_cloudwatch,
                            response |-> processing_result(results),
                            metrics |-> [i \in 1..Len(records) |->
                                            IF ~enable_cloudwatch THEN None
                                            ELSE IF results[i].status = "success"
                                            THEN Some("FilesDeidentified")
                                            ELSE Some("DeidentificationFailure")]] @@ NoCall
                /\ UNCHANGED <<salt, date_shift_days, dataset, original, returned, passes,
                               hashlib, pads_year, invocations, policy, emitted,
                               _sequence_tokens>>

(***************************************************************************)
(* lambda_handler_wrapper(handler_name, enable_cloudwatch, log_group_name, *)
(* metric_namespace)(func)(event, context): one invocation of the wrapped  *)
(* handler.  func is what the wrapped function does: the exception it      *)
(* raises ("" when it returns) and the object it returns; logs_raise names *)
(* the logs call that raises ("" when none), metric_raises tells whether   *)
(* put_metric_data raises.  call keeps the calls made on the               *)
(* CloudWatchHandler, the response and the exception that left the         *)
(* wrapper.  A 200 body is the JSON text; a 500 body is the dict that      *)
(* json.dumps is given, without the traceback.                             *)
(***************************************************************************)
InvokeWrapped ==
   \E enable_cloudwatch \in BOOLEAN, log_group_name \in {None, Some(<<"/", "a", "w", "s", "/", "l", "a", "m", "b", "d", "a", "/", "t", "e", "s", "t">>)},
      metric_namespace \in {None, Some(<<"T", "e", "s", "t", "/", "N", "a", "m", "e", "s", "p", "a", "c", "e">>)},
      logs_raise \in {"", "create_log_stream"},
      metric_raises \in BOOLEAN,
      func \in [raised : {""},
                result : {[type |-> "dict", repr |-> <<"{", "}">>], [type |-> "set", repr |-> <<"{", "1", "}">>]}]
               \cup [raised : {"ValueError", "SystemExit"},
                     result : {[type |-> "NoneType", repr |-> <<"N", "o", "n", "e">>]}] :
      \* a call that is not made raises nothing
      /\ ~enable_cloudwatch \/ log_group_name = None => logs_raise = ""
      /\ ~enable_cloudwatch \/ metric_namespace = None => ~metric_raises
      /\ LET handler_name == <<"T", "e", "s", "t", "H", "a", "n", "d", "l", "e", "r">>
             logs == <<"create_log_group", "create_log_stream", "put_log_events">>
             \* json.dumps(obj): the text, or the TypeError of an object it cannot encode
             dumps(obj) ==
                IF obj.type = "str"
                THEN [raised |-> "", text |-> <<"dquote">> \o obj.repr \o <<"dquote">>]
                ELSE IF obj.type \in {"dict", "int"} THEN [raised |-> "", text |-> obj.repr]
                ELSE IF obj.type = "NoneType" THEN [raised |-> "", text |-> <<"n", "u", "l", "l">>]
                ELSE [raised |-> "TypeError", text |-> <<>>]
             with_metrics == enable_cloudwatch /\ metric_namespace # None /\ metric_namespace[1] # <<>>
             log_calls ==
                IF enable_cloudwatch /\ log_group_name # None /\ log_group_name[1] # <<>>
                THEN IF logs_raise = "" THEN logs
                     ELSE SubSeq(logs, 1, CHOOSE i \in 1..3 : logs[i] = logs_raise)
                ELSE <<>>
             success == IF with_metrics THEN <<handler_name \o <<"S", "u", "c", "c", "e", "s", "s">>>> ELSE <<>>
             failure == IF with_metrics THEN <<handler_name \o <<"F", "a", "i", "l", "u", "r", "e">>>> ELSE <<>>
             error(e, metrics) ==
                [raised |-> "", metrics |-> metrics \o failure,
                 response |-> Some([statusCode |-> 500, body |-> [error_type |-> e]])]
             body == dumps(func.result)
             out ==
                IF func.raised = "SystemExit"
                THEN [raised |-> func.raised, metrics |-> <<>>, response |-> None]
                ELSE IF func.raised # "" THEN error(func.raised, <<>>)
                ELSE IF body.raised # "" THEN error(body.raised, success)
                ELSE [raised |-> "", metrics |-> success,
                      response |-> Some([statusCode |-> 200, body |-> body.text])]
         IN  /\ call' = [op |-> "lambda_handler_wrapper", enable_cloudwatch |-> enable_cloudwatch,
                         log_group_name |-> log_group_name,
                         metric_namespace |-> metric_namespace, func |-> func,
                         logs_raise |-> logs_raise, metric_raises |-> metric_raises,
                         log_calls |-> log_calls, metrics |-> out.metrics,
                         response |-> out.response, raised |-> out.raised] @@ NoCall
             /\ UNCHANGED <<salt, date_shift_days, _patient_date_shifts, dataset, original,
                            returned, passes, hashlib, pads_year, invocations, policy, emitted,
                            _sequence_tokens>>

NextHandlers == HandleIngestion \/ HandleDeidentification \/ InvokeWrapped

SpecHandlers == Init /\ [][NextHandlers]_vars

(***************************************************************************)
(* Properties                                                              *)
(***************************************************************************)
Returned == call.op = "deidentify_dataset" /\ call.raised = ""

Marked ==
   /\ has(dataset, "PatientIdentityRemoved")
   /\ dataset["PatientIdentityRemoved"] = YES
   /\ has(dataset, "DeidentificationMethod")

\* an 8-digit YYYYMMDD string that denotes a calendar date
IsCalendarDate(s) == Len(s) = 8 /\ (\A i \in 1..8 : IsDigit(s[i])) /\ strptime(s).ok

\* empty, not 8 characters long, or not parseable as YYYYMMDD
IsMalformedDate(s) == s = <<>> \/ Len(s) # 8 \/ ~strptime(s).ok

\* NNNu with u one of units
IsAge(s, units) == Len(s) = 4 /\ (\A i \in 1..3 : IsDigit(s[i])) /\ s[4] \in units

\* C1: every tag of REMOVE_TAGS present before deidentify_dataset is absent
\* from the record it returns
RemovalCompleteness ==
   Returned => \A t \in Range(REMOVE_TAGS) : has(original, t) => ~has(dataset, t)

RemovalWitness ==
   /\ Returned
   /\ \A t \in Range(REMOVE_TAGS) : has(original, t) /\ ~has(dataset, t)

\* C2 as stated: every tag of HASH_TAGS present comes out as the first 16 hex
\* characters of SHA-256 of value + ":" + salt
HashingWithColon ==
   Returned =>
      \A t \in Range(HASH_TAGS) :
         has(original, t) =>
            /\ has(dataset, t)
            /\ dataset[t] = Prefix(sha256(original[t] \o <<":">> \o salt), 16)

\* C2 amended: every tag of HASH_TAGS present comes out as the first 16 hex
\* characters of SHA-256 of the value directly followed by the salt
HashingOfValueAndSalt ==
   Returned =>
      \A t \in Range(HASH_TAGS) :
         has(original, t) =>
            /\ has(dataset, t)
            /\ dataset[t] = Prefix(sha256(original[t] \o salt), 16)

HashingWitness ==
   /\ Returned
   /\ salt = <<"s">>
   /\ has(original, "PatientID") /\ original["PatientID"] = <<"P", "1">>
   /\ dataset["PatientID"] = <<"2", "8", "d", "9", "b", "1", "e", "b", "e", "2", "8", "3", "4", "5", "f", "0">>
   /\ has(original, "AccessionNumber") /\ original["AccessionNumber"] = <<"A", "C", "C", "4", "5", "6">>
   /\ dataset["AccessionNumber"] = <<"5", "d", "6", "0", "8", "7", "2", "7", "1", "4", "e", "9", "c", "b", "f", "2">>

\* C3: two records with the same original PatientID returned by one instance
\* carry the same hashed PatientID and were shifted by the same number of days
ConsistencyAcrossRecords ==
   \A a, b \in returned :
      a.patient_id = b.patient_id =>
         a.hashed_id = b.hashed_id /\ a.date_shift = b.date_shift

ConsistencyWitness ==
   /\ Returned
   /\ call.repeat
   /\ call.patient_id = <<"P", "1">>
   /\ \E x \in returned : x.patient_id = <<"P", "A", "T", "I", "E", "N", "T", "1", "2", "3">>
   /\ \E x \in returned : x.patient_id = <<"P", "1">> /\ x.hashed_id # None

\* C4: with no fixed shift, the offset of a patient id is the same integer, a
\* function of patient id and salt alone, on every call and in every instance
OffsetDeterminism ==
   date_shift_days = None =>
      /\ \A p \in DOMAIN _patient_date_shifts :
            _patient_date_shifts[p] = HexMod(md5(p \o salt), 730) - 365
      /\ call.op = "deidentify_dataset" =>
            call.date_shift = Some(HexMod(md5(call.patient_id \o salt), 730) - 365)

OffsetDeterminismWitness ==
   /\ date_shift_days = None
   /\ Returned
   /\ call.repeat
   /\ call.patient_id \in DOMAIN _patient_date_shifts
   /\ Cardinality(DOMAIN _patient_date_shifts) >= 3

\* C5: every derived offset and every value stored in the registry lies in
\* [-365, 365]
OffsetRange ==
   /\ \A p \in DOMAIN _patient_date_shifts : _patient_date_shifts[p] \in (0 - 365)..365
   /\ date_shift_days = None /\ call.op = "deidentify_dataset" =>
         call.date_shift[1] \in (0 - 365)..365

OffsetRangeWitness ==
   /\ call.op = "deidentify_dataset"
   /\ \E p, q \in DOMAIN _patient_date_shifts :
         _patient_date_shifts[p] < 0 /\ _patient_date_shifts[q] > 0

\* C6: a fixed shift, 0 included, is what every patient gets, and the registry
\* stays empty
FixedShift ==
   date_shift_days # None =>
      /\ _patient_date_shifts = <<>>
      /\ call.op = "deidentify_dataset" => call.date_shift = date_shift_days

FixedShiftWitness ==
   /\ date_shift_days = Some(0)
   /\ Returned
   /\ call.date_shift = Some(0)
   /\ _patient_date_shifts = <<>>
   /\ has(original, "StudyDate") /\ dataset["StudyDate"] = original["StudyDate"]

\* C7: every tag of DATE_TAGS holding an 8-digit calendar date comes out as the
\* date that many days later, written as 8-digit YYYYMMDD
DateShifting ==
   Returned =>
      \A t \in Range(DATE_TAGS) :
         has(original, t) /\ IsCalendarDate(original[t]) =>
            /\ has(dataset, t)
            /\ dataset[t] =
                  strftime(strptime(original[t]).ordinal + call.date_shift[1], TRUE)

\* C8: a record with a malformed date in a tag of DATE_TAGS keeps that value,
\* the call does not raise and completes the later steps
MalformedDatesPassThrough ==
   call.op = "deidentify_dataset" =>
      \A t \in Range(DATE_TAGS) :
         has(original, t) /\ IsMalformedDate(original[t]) =>
            /\ call.raised = ""
            /\ has(dataset, t) /\ dataset[t] = original[t]
            /\ Marked

\* C9: a PatientAge NNNY becomes "090Y" exactly when NNN is over 89 and stays
\* as it is otherwise; ages in months, weeks or days stay as they are
AgeCapping ==
   call.op = "deidentify_dataset" /\ has(original, "PatientAge") =>
      LET age == original["PatientAge"]
      IN  /\ IsAge(age, {"Y"}) =>
                /\ Returned
                /\ dataset["PatientAge"] =
                      IF DecimalVal(Prefix(age, 3)) > 89 THEN <<"0", "9", "0", "Y">> ELSE age
          /\ IsAge(age, {"M", "W", "D"}) => Returned /\ dataset["PatientAge"] = age

AgeCappingWitness ==
   /\ Returned
   /\ has(original, "PatientAge") /\ original["PatientAge"] = <<"0", "9", "2", "Y">>
   /\ dataset["PatientAge"] = <<"0", "9", "0", "Y">>

\* C10: a PatientAge that is not of the form NNNu does not make the call raise,
\* stays as it is, and the de-identified record is returned
MalformedAgesPassThrough ==
   call.op = "deidentify_dataset" /\ has(original, "PatientAge")
   /\ ~IsAge(original["PatientAge"], {"Y", "M", "W", "D"}) =>
      /\ Returned
      /\ dataset["PatientAge"] = original["PatientAge"]
      /\ Marked

\* C11: between an invocation's "patient id not in registry" check and its
\* insertion, no other invocation sharing the instance reads or writes the
\* registry
AtomicLookupOrCreate ==
   [][\A i, j \in Invocations :
         i # j /\ invocations[i].pc = "insert" =>
            ~(/\ invocations[j].pc \in {"lookup", "insert", "return"}
              /\ invocations'[j].pc # invocations[j].pc)]_vars

\* C12: with no fixed shift, a call adds a registry entry only for the patient
\* id it looks up and only when that id has none yet; the entries there keep
\* their values and none is removed, so the key set grows by at most one key
\* per call
RegistryLifecycle ==
   [][date_shift_days = None /\ call'.op = "deidentify_dataset" =>
         /\ \A p \in DOMAIN _patient_date_shifts :
               /\ p \in DOMAIN _patient_date_shifts'
               /\ _patient_date_shifts'[p] = _patient_date_shifts[p]
         /\ DOMAIN _patient_date_shifts' \ DOMAIN _patient_date_shifts
               \subseteq {call'.patient_id}
         /\ call'.patient_id \in DOMAIN _patient_date_shifts']_vars

RegistryLifecycleWitness ==
   /\ date_shift_days = None
   /\ call.op = "deidentify_dataset"
   /\ call.repeat
   /\ Cardinality(DOMAIN _patient_date_shifts) = 2

\* C13: the patient id deidentify_dataset works with is the PatientID the record
\* came in with; the registry key and the offset applied to the date tags come
\* from that id, not from the hashed value the record goes out with
ProcessingOrder ==
   Returned /\ date_shift_days = None =>
      LET id     == IF has(original, "PatientID") THEN original["PatientID"] ELSE UNKNOWN
          offset == HexMod(md5(id \o salt), 730) - 365
      IN  /\ call.patient_id = id
          /\ id \in DOMAIN _patient_date_shifts
          /\ _patient_date_shifts[id] = offset
          /\ call.date_shift = Some(offset)
          /\ \A t \in Range(DATE_TAGS) :
                has(original, t) /\ IsCalendarDate(original[t]) =>
                   /\ has(dataset, t)
                   /\ strptime(dataset[t]).ok
                   /\ strptime(dataset[t]).ordinal = strptime(original[t]).ordinal + offset

ProcessingOrderWitness ==
   /\ Returned
   /\ date_shift_days = None
   /\ has(original, "PatientID") /\ has(dataset, "PatientID")
   /\ dataset["PatientID"] # original["PatientID"]
   /\ dataset["PatientID"] \notin DOMAIN _patient_date_shifts
   /\ has(original, "StudyDate") /\ IsCalendarDate(original["StudyDate"])
   /\ dataset["StudyDate"] # original["StudyDate"]

\* C14: deidentify_dataset applied to the record an earlier call returned does
\* not raise, and every tag of REMOVE_TAGS is absent afterwards
IdempotenceOfRemoval ==
   [][Returned /\ call'.op = "deidentify_dataset" /\ passes' = passes + 1 =>
         /\ call'.raised = ""
         /\ \A t \in Range(REMOVE_TAGS) : ~has(dataset', t)]_vars

\* C15: no de-identifier exists whose policy lists a tag in both REMOVE_TAGS
\* and HASH_TAGS (its construction fails), so no record is processed under
\* such a policy
DisjointnessRejection ==
   Range(policy.REMOVE_TAGS) \cap Range(policy.HASH_TAGS) = {}

\* C16: deidentify_dataset leaves every tag unchanged that is not in
\* REMOVE_TAGS, HASH_TAGS or DATE_TAGS and is not PatientAge, a private tag,
\* PixelData or a marker tag; the time tags, the UIDs and Modality among them
NonIdentifyingDataPreserved ==
   call.op = "deidentify_dataset" =>
      \A t \in DOMAIN original :
         (/\ t \notin Range(REMOVE_TAGS) \cup Range(HASH_TAGS) \cup Range(DATE_TAGS)
          /\ t \notin {"PatientAge", "PixelData", "PatientIdentityRemoved",
                        "DeidentificationMethod"}
          /\ ~is_private(t))
         => has(dataset, t) /\ dataset[t] = original[t]

NonIdentifyingDataWitness ==
   /\ Returned
   /\ \A t \in Range(TIME_TAGS) : has(original, t) /\ has(dataset, t)
   /\ \A t \in {"StudyInstanceUID", "SeriesInstanceUID", "SOPInstanceUID", "Modality"} :
         has(original, t) /\ has(dataset, t) /\ dataset[t] = original[t]
   /\ dataset # original

\* C17: with remove_private_tags true the returned record holds no private
\* tag; with it false every private tag of the input is there with its value
PrivateTags ==
   Returned =>
      IF call.private_flag
      THEN \A t \in DOMAIN dataset : ~is_private(t)
      ELSE \A t \in DOMAIN original :
              is_private(t) => has(dataset, t) /\ dataset[t] = original[t]

PrivateTagsWitness ==
   /\ Returned
   /\ call.private_flag
   /\ \E t \in DOMAIN original : is_private(t)
   /\ \A t \in DOMAIN dataset : ~is_private(t)

\* C18: every record deidentify_dataset returns carries PatientIdentityRemoved
\* = "YES" and a DeidentificationMethod; the marker is the last step, so a call
\* that raises before completing the other steps leaves no marker behind
ProcessedMarker ==
   call.op = "deidentify_dataset" =>
      /\ call.raised = "" => Marked /\ dataset["DeidentificationMethod"] = DEIDENTIFICATION_METHOD
      /\ call.raised # "" =>
            \A t \in {"PatientIdentityRemoved", "DeidentificationMethod"} :
               has(dataset, t) => has(original, t)

ProcessedMarkerWitness ==
   /\ Returned
   /\ Marked
   /\ ~has(original, "PatientIdentityRemoved")
   /\ has(original, "PatientAge") /\ original["PatientAge"] # dataset["PatientAge"]

\* C19: the patient id a record came in with appears in the details of no
\* log_execution record; the audit record goes to another stream than the
\* log_execution records; and the audit record carries no value of a removed
\* tag
RawIdsOutOfTelemetry ==
   \A i \in DOMAIN emitted :
      LET fields == emitted[i].extra_fields
      IN  IF "audit_event" \in DOMAIN fields
          THEN /\ \A j \in DOMAIN emitted :
                     "audit_event" \notin DOMAIN emitted[j].extra_fields =>
                        emitted[j].stream # emitted[i].stream
               /\ \A k \in DOMAIN fields.details, t \in Range(REMOVE_TAGS) :
                     has(original, t) =>
                        fields.details[k] # original[t] /\ fields.resource # original[t]
          ELSE has(original, "PatientID") /\ "details" \in DOMAIN fields =>
                  \A k \in DOMAIN fields.details : fields.details[k] # original["PatientID"]

\* C20: get_deidentification_report changes neither the record nor the
\* registry; tags_to_remove, tags_to_hash and tags_to_shift hold exactly the
\* tags of REMOVE_TAGS, HASH_TAGS and DATE_TAGS present in the record, each
\* once; phi_tags_present is their disjoint union, total_phi_elements its
\* length, and private_tags_count the number of private tags of the record
ReportBuilder ==
   [][call'.op = "get_deidentification_report" =>
         LET report == call'.report
             Present(tags) == {t \in Range(tags) : has(dataset, t)}
             Lists(seq, set) == Range(seq) = set /\ Len(seq) = Cardinality(set)
         IN  /\ dataset' = dataset
             /\ _patient_date_shifts' = _patient_date_shifts
             /\ Lists(report.tags_to_remove, Present(REMOVE_TAGS))
             /\ Lists(report.tags_to_hash, Present(HASH_TAGS))
             /\ Lists(report.tags_to_shift, Present(DATE_TAGS))
             /\ Lists(report.phi_tags_present,
                      Present(REMOVE_TAGS) \cup Present(HASH_TAGS) \cup Present(DATE_TAGS))
             /\ Len(report.phi_tags_present) =
                   Len(report.tags_to_remove) + Len(report.tags_to_hash)
                   + Len(report.tags_to_shift)
             /\ report.total_phi_elements = Len(report.phi_tags_present)
             /\ report.private_tags_count =
                   Cardinality({t \in DOMAIN dataset : is_private(t)})]_vars

ReportBuilderWitness ==
   /\ call.op = "get_deidentification_report"
   /\ call.report.tags_to_remove # <<>>
   /\ call.report.tags_to_hash # <<>>
   /\ call.report.tags_to_shift # <<>>
   /\ call.report.private_tags_count = 2
   /\ _patient_date_shifts # <<>>
   /\ dataset = original

\* C21: shifting a valid YYYYMMDD date by k days, k in [-365, 365], and the
\* result by -k days gives the date back
ShiftRoundTrip ==
   call.op = "_shift_date" =>
      /\ call.back_from = None /\ IsCalendarDate(call.date_str) =>
            call.raised = "" /\ call.value # None
      /\ call.back_from # None /\ IsCalendarDate(call.back_from[1]) =>
            call.raised = "" /\ call.value = call.back_from

\* C25: _shift_date returns None or an 8-character YYYYMMDD string and never
\* raises, whatever the input string and the offset in [-365, 365]
ShiftDateTotal ==
   call.op = "_shift_date" =>
      /\ call.raised = ""
      /\ call.value # None =>
            Len(call.value[1]) = 8 /\ \A i \in 1..Len(call.value[1]) : IsDigit(call.value[1][i])

\* C26: with no fixed shift, however the invocations on a shared instance
\* interleave, the invocations that looked up the same patient id got the same
\* offset, and the registry holds that offset under that id
InterleavingHarmless ==
   date_shift_days = None =>
      \A i \in Invocations :
         invocations[i].shift # None =>
            /\ invocations[i].patient_id \in DOMAIN _patient_date_shifts
            /\ _patient_date_shifts[invocations[i].patient_id] = invocations[i].shift[1]
            /\ \A j \in Invocations :
                  /\ invocations[j].shift # None
                  /\ invocations[j].patient_id = invocations[i].patient_id
                  => invocations[j].shift = invocations[i].shift

InterleavingWitness ==
   /\ date_shift_days = None
   /\ \E i, j \in Invocations :
         /\ i # j
         /\ invocations[i].pc = "idle" /\ invocations[i].shift # None
         /\ invocations[j].pc = "insert"
         /\ invocations[j].patient_id = invocations[i].patient_id
         /\ invocations[j].patient_id \in DOMAIN _patient_date_shifts

\* C28: a deidentify_dataset call that raised left the dataset passed in exactly
\* as it was before the call
NoPartialTransformation ==
   call.op = "deidentify_dataset" /\ call.raised # "" => dataset = original

\* C27: deidentify_dataset applied to its own output, with no fixed shift,
\* hashes the hashed PatientID again, shifts the dates by the offset derived from
\* the hashed PatientID, and adds a registry entry under the hashed id beside the
\* entry of the first pass
Reprocessing ==
   /\ Returned
   /\ passes = 2
   /\ date_shift_days = None
   /\ has(original, "PatientIdentityRemoved")
   /\ has(original, "PatientID")
   => LET hashed_id == original["PatientID"]
          offset == HexMod(md5(hashed_id \o salt), 730) - 365
      IN  /\ dataset["PatientID"] = Prefix(sha256(hashed_id \o salt), 16)
          /\ dataset["PatientID"] # hashed_id
          /\ call.date_shift = Some(offset)
          /\ \A t \in Range(DATE_TAGS) :
                has(original, t) /\ IsCalendarDate(original[t]) =>
                   dataset[t] = strftime(strptime(original[t]).ordinal + offset, pads_year)
          /\ hashed_id \in DOMAIN _patient_date_shifts
          /\ _patient_date_shifts[hashed_id] = offset
          /\ \E x \in returned :
                /\ x.hashed_id = Some(hashed_id)
                /\ x.patient_id # hashed_id
                /\ x.patient_id \in DOMAIN _patient_date_shifts

ReprocessingWitness ==
   /\ Returned
   /\ passes = 2
   /\ date_shift_days = None
   /\ has(original, "PatientIdentityRemoved")
   /\ has(original, "PatientID")
   /\ has(original, "StudyDate") /\ IsCalendarDate(original["StudyDate"])
   /\ dataset["StudyDate"] # original["StudyDate"]
   /\ \E x \in returned :
         /\ x.hashed_id = Some(original["PatientID"])
         /\ x.date_shift # call.date_shift[1]

\* C30: a successful delete_log_group(G) leaves no cached token of a stream of
\* G and leaves the tokens of the streams of every other group as they were,
\* also of a group whose name starts with G; a failed one leaves the cache as
\* it was
SequenceTokenScoping ==
   call.op = "delete_log_group" =>
      IF call.raised # "" THEN _sequence_tokens = call.cache
      ELSE LET of_group(key) ==
                  /\ Len(key) > Len(call.log_group)
                  /\ SubSeq(key, 1, Len(call.log_group) + 1) = call.log_group \o <<"/">>
           IN  /\ DOMAIN _sequence_tokens \subseteq DOMAIN call.cache
               /\ \A key \in DOMAIN call.cache :
                     IF of_group(key) THEN key \notin DOMAIN _sequence_tokens
                     ELSE /\ key \in DOMAIN _sequence_tokens
                          /\ _sequence_tokens[key] = call.cache[key]

\* C22: DeidentificationHandler.handle reports every record whose download,
\* de-identification and upload succeed with status "success", the key
\* "deidentified/<key>" and the hashed PatientID, and publishes FilesDeidentified
DeidentificationReported ==
   call.op = "DeidentificationHandler.handle" =>
      \A i \in 1..Len(call.records) :
         /\ call.records[i].download = ""
         /\ call.records[i].age = <<"0", "4", "8", "Y">>
         /\ call.records[i].upload = ""
         => /\ call.response.results[i].status = "success"
            /\ call.response.results[i].deidentified_key =
                  <<"d", "e", "i", "d", "e", "n", "t", "i", "f", "i", "e", "d", "/">> \o call.response.results[i].source_key
            /\ call.response.results[i].anonymized_patient_id = _hash_value(<<"P", "1">>)
            /\ call.enable_cloudwatch => call.metrics[i] = Some("FilesDeidentified")

\* C23: both handlers return one entry per record, in record order, with
\* processed the number of records; a record whose download, validation,
\* de-identification or upload raises gets a failed entry with its key and the
\* error, and nothing leaves handle
BatchIsolation ==
   call.op \in {"IngestionHandler.handle", "DeidentificationHandler.handle"} =>
      /\ call.raised = ""
      /\ call.response.processed = Len(call.records)
      /\ Len(call.response.results) = Len(call.records)
      /\ \A i \in 1..Len(call.records) :
            LET record == call.records[i]
                result == call.response.results[i]
                raises == \/ record.download # ""
                          \/ record.upload # ""
                          \/ "date" \in DOMAIN record /\ record.date = <<"I", "N", "V", "A", "L", "I", "D">>
                          \/ "age" \in DOMAIN record /\ record.age = <<"A", "B", "C", "Y">>
            IN  /\ result.source_key =
                      [j \in 1..Len(record.key) |->
                          IF record.key[j] = "+" THEN " " ELSE record.key[j]]
                /\ raises =>
                      /\ DOMAIN result = {"status", "source_key", "error"}
                      /\ result.status = "failed"
                      /\ result.error # ""

BatchIsolationWitness ==
   /\ call.op = "IngestionHandler.handle"
   /\ Len(call.records) = 2
   /\ call.records[1].download # ""
   /\ call.records[1].key # call.records[2].key
   /\ call.response.results[1].status = "failed"
   /\ call.response.results[2].status = "success"

\* C24: a wrapped handler answers 200 with the JSON of the result whenever the
\* wrapped function returns and 500 with the error type whenever it raises,
\* whatever the CloudWatch calls do, and nothing leaves the wrapper
WrapperStatusCodes ==
   call.op = "lambda_handler_wrapper" =>
      /\ call.raised = ""
      /\ call.response # None
      /\ call.func.raised = "" => call.response[1].statusCode = 200
      /\ call.func.raised # "" =>
            /\ call.response[1].statusCode = 500
            /\ call.response[1].body.error_type = call.func.raised

\* C29: with CloudWatch and a metric namespace configured, every invocation of
\* a wrapped handler submits exactly one of the Success and Failure metrics,
\* Success with status 200 and Failure with status 500
OneOutcomeMetric ==
   /\ call.op = "lambda_handler_wrapper"
   /\ call.enable_cloudwatch
   /\ call.metric_namespace # None
   => /\ Len(call.metrics) = 1
      /\ call.response # None
      /\ call.metrics[1] = <<"T", "e", "s", "t", "H", "a", "n", "d", "l", "e", "r", "S", "u", "c", "c", "e", "s", "s">> <=> call.response[1].statusCode = 200
      /\ call.metrics[1] = <<"T", "e", "s", "t", "H", "a", "n", "d", "l", "e", "r", "F", "a", "i", "l", "u", "r", "e">> <=> call.response[1].statusCode = 500

====
